---- MODULE Spec2Model ----
(***************************************************************************)
(* Off-chain payment channel of the client (client/src/lib.rs): the local  *)
(* OffchainChannel of an account, its readiness, and the transfer /        *)
(* conform / process_transfer_conform / update_with_resource operations;   *)
(* the two parties of a channel exchanging requests and conforms; the      *)
(* account's ledger of channels; the on-chain resources, their codec       *)
(* (client/src/resource.rs) and the decoded account state                  *)
(* (client/src/account_state.rs).                                          *)
(***************************************************************************)
EXTENDS Integers, Sequences, FiniteSets, TLC

VARIABLES
    chan,           \* account -> the OffchainChannel it holds for its counterparty
    build,          \* the build profile: overflow checks on or off
    last,           \* the call made last and what it returned
    wire,           \* requests and conforms sent and not yet handed to their receiver
    channels,       \* AccountData.channels of one account: counterparty -> channel
    account_map,    \* the account snapshot: access path -> bytes
    account_state   \* the AccountState decoded last, if any

vars == <<chan, build, last, wire, channels, account_map, account_state>>

----------------------------------------------------------------------------
(* Bounds of the input sets.                                               *)

\* balances carried by pasted requests: 0..MaxBal; amounts of pasted requests and
\* of transfers, balances of pasted conforms and of proofs: up to MaxBal
MaxBal == 1
\* versions carried by pasted requests and conforms: 0..MaxVersion
MaxVersion == 1
\* on-chain coin of a channel resource: 0..MaxCoin
MaxCoin == 1
\* stand-in for u64::MAX (2^64 - 1 in the program): the largest value a u64 holds
U64_MAX == 1048575
\* requests and conforms on their way between the two parties at one time
MaxInFlight == 2

----------------------------------------------------------------------------
(* Values.                                                                 *)

\* Option<T>: None is the empty sequence, Some(x) the one-element sequence
None == <<>>
Some(x) == <<x>>

\* the elements of a sequence
Range(seq) == {seq[i] : i \in DOMAIN seq}

Addresses == {"A", "B", "C"}
\* the counterparty of an account in the pairwise channel A <-> B
Peer(a) == IF a = "A" THEN "B" ELSE "A"

\* Vec<u8> signatures: the empty vector and two non-empty vectors
NoSig == <<>>
Sigs == {NoSig, <<7>>, <<8>>}

\* overflow-checks on (debug profile) or off (release profile)
Builds == {"debug", "release"}

\* u64 arithmetic: a result outside 0..U64_MAX panics in a build with overflow
\* checks and wraps modulo 2^64 in a build without them
Overflows(x) == x < 0 \/ x > U64_MAX
Wrap(x) == x % (U64_MAX + 1)

ChannelResource(other, coin, closed) == [other |-> other, coin |-> coin, closed |-> closed]
ChannelResources == {ChannelResource(o, c, cl) : o \in Addresses, c \in 0..MaxCoin, cl \in BOOLEAN}

ProofResource(version, self_balance, other_balance, self_signature, other_signature) ==
    [version |-> version, self_balance |-> self_balance, other_balance |-> other_balance,
     self_signature |-> self_signature, other_signature |-> other_signature]
Proofs == {ProofResource(1, MaxBal, 0, NoSig, NoSig)}
OptProofs == {None} \cup {Some(p) : p \in Proofs}

ChannelLocalData(version, self_balance, other_balance, self_signature, other_signature) ==
    [version |-> version, self_balance |-> self_balance, other_balance |-> other_balance,
     self_signature |-> self_signature, other_signature |-> other_signature]

TransferRequest(sender, version, amount, self_balance, other_balance, signature) ==
    [sender |-> sender, version |-> version, amount |-> amount,
     self_balance |-> self_balance, other_balance |-> other_balance, signature |-> signature]

TransferConform(sender, signature, request) ==
    [sender |-> sender, signature |-> signature, request |-> request]

\* who a pasted request claims to come from, with the signature it carries: the
\* counterparty (unsigned, as transfer produces it) or a third account
RequestOrigins == {<<"B", NoSig>>, <<"C", <<7>>>>}

\* requests an account can be handed (hex pasted by the user): any version and
\* balances, with amount nothing or MaxBal
Requests == {TransferRequest(o[1], v, a, sb, ob, o[2]) :
                o \in RequestOrigins, v \in 0..MaxVersion, a \in {0, MaxBal},
                sb \in 0..MaxBal, ob \in 0..MaxBal}

\* <<conform.signature, conform.request.signature>> of a pasted conform
ConformSignatures == {<<NoSig, NoSig>>, <<<<7>>, <<8>>>>}

\* conforms an account can be handed: an echoed request with any version and each
\* balance nothing or MaxBal
Conforms == {TransferConform("B", g[1], TransferRequest("A", v, MaxBal, sb, ob, g[2])) :
                g \in ConformSignatures, v \in 0..MaxVersion,
                sb \in {0, MaxBal}, ob \in {0, MaxBal}}

StatusNone == [tag |-> "None"]
StatusOpen(resource) == [tag |-> "Open", resource |-> resource]
StatusClosed(resource, proof) == [tag |-> "Closed", resource |-> resource, proof |-> proof]

----------------------------------------------------------------------------
(* OffchainChannel and its operations.                                     *)

total_balance(x) == x.self_balance + x.other_balance

is_open(status) == status.tag = "Open"

\* faulty variant: the local data are taken from the counterparty's proof
new_from_other_proof(self_address, other_address, self_channel, other_channel, self_proof, other_proof) ==
    [self_address |-> self_address,
     other_address |-> other_address,
     self_status |-> IF self_channel.closed
                     THEN StatusClosed(self_channel, self_proof)
                     ELSE StatusOpen(self_channel),
     other_status |-> IF other_channel # None
                      THEN IF other_channel[1].closed
                           THEN StatusClosed(other_channel[1], other_proof)
                           ELSE StatusOpen(other_channel[1])
                      ELSE StatusNone,
     data |-> IF other_proof # None
              THEN Some(ChannelLocalData(other_proof[1].version, other_proof[1].self_balance,
                                         other_proof[1].other_balance,
                                         other_proof[1].self_signature,
                                         other_proof[1].other_signature))
              ELSE None]

new(self_address, other_address, self_channel, other_channel, self_proof, other_proof) ==
    [self_address |-> self_address,
     other_address |-> other_address,
     self_status |-> IF self_channel.closed
                     THEN StatusClosed(self_channel, self_proof)
                     ELSE StatusOpen(self_channel),
     other_status |-> IF other_channel # None
                      THEN IF other_channel[1].closed
                           THEN StatusClosed(other_channel[1], other_proof)
                           ELSE StatusOpen(other_channel[1])
                      ELSE StatusNone,
     data |-> IF self_proof # None
              THEN Some(ChannelLocalData(self_proof[1].version, self_proof[1].self_balance,
                                         self_proof[1].other_balance,
                                         self_proof[1].self_signature,
                                         self_proof[1].other_signature))
              ELSE None]

\* faulty variant: readiness that looks at the own side only
is_ready_self_only(c) == is_open(c.self_status)

is_ready(c) == is_open(c.self_status) /\ is_open(c.other_status)

\* results of the operations: Ok with the returned value, Err with the message of
\* the failed ensure!/bail!, or a panic (arithmetic overflow with overflow checks)
Panic(c) == [outcome |-> "panic", chan |-> c]
Err(msg, c) == [outcome |-> msg, chan |-> c]
Ok(value, c) == [outcome |-> "Ok", value |-> value, chan |-> c]
IsErr(r) == r.outcome \notin {"Ok", "panic"}

\* the request transfer builds from the local data
transfer_request(c, data, amount) ==
    TransferRequest(c.self_address, Wrap(data.version + 1), amount,
                    Wrap(data.self_balance - amount),
                    Wrap(data.other_balance - amount), NoSig)

\* faulty variant: the first request lowers both balances, as the local-data branch does
first_transfer_request_both_lowered(c, resource, other_resource, amount) ==
    TransferRequest(c.self_address, 1, amount,
                    Wrap(resource.coin - amount),
                    Wrap(other_resource.coin - amount), NoSig)

\* the request transfer builds from the two sides' on-chain coins
first_transfer_request(c, resource, other_resource, amount) ==
    TransferRequest(c.self_address, 1, amount,
                    Wrap(resource.coin - amount),
                    Wrap(other_resource.coin + amount), NoSig)

transfer(c, amount, bld) ==
    IF ~is_ready(c) THEN Err("channel is not ready", c)
    ELSE IF c.data # None THEN
        LET data == c.data[1] IN
        IF ~(data.self_balance >= amount) THEN Err("balance not enough.", c)
        ELSE IF bld = "debug" /\ (\/ Overflows(data.version + 1)
                                  \/ Overflows(data.self_balance - amount)
                                  \/ Overflows(data.other_balance - amount))
        THEN Panic(c)
        ELSE Ok(transfer_request(c, data, amount), c)
    ELSE IF c.self_status.tag = "Open" /\ c.other_status.tag = "Open" THEN
        LET resource == c.self_status.resource
            other_resource == c.other_status.resource IN
        IF ~(resource.coin >= amount) THEN Err("balance not enough.", c)
        ELSE IF bld = "debug" /\ (\/ Overflows(resource.coin - amount)
                                  \/ Overflows(other_resource.coin + amount))
        THEN Panic(c)
        ELSE Ok(first_transfer_request(c, resource, other_resource, amount), c)
    ELSE Err("unexpect channel status.", c)

\* faulty variants: a version check that only refuses older versions, a total check
\* left out
version_ok_not_older(data, request) == request.version > data.version
total_ok_skipped(data, request) == TRUE

\* faulty variant: the check of the proposer's claimed other_balance left out
balance_ok_skipped(data, request) == TRUE

\* the three checks of conform against the local data
version_ok(data, request) == Wrap(data.version + 1) = request.version
balance_ok(data, request) == Wrap(data.self_balance + request.amount) = request.other_balance
total_ok(data, request) == Wrap(total_balance(data)) = Wrap(total_balance(request))

\* faulty variants: a first version check that accepts any version from 1 on, a first balance
\* check made against the proposer's side, a coverage check that refuses the
\* counterparty's whole coin, a first version check that wants a signature
first_version_ok_from_one(request) == request.version >= 1
first_version_ok_signed(request) == request.version = 1 /\ request.signature # NoSig
first_coverage_ok_strict(other_resource, request) == other_resource.coin > request.amount
first_balance_ok_self_side(resource, request) ==
    request.self_balance = Wrap(resource.coin + request.amount)

\* the checks of conform against the on-chain coins, when there is no local data
first_version_ok(request) == request.version = 1
first_coverage_ok(other_resource, request) == other_resource.coin >= request.amount
first_total_ok(resource, other_resource, request) ==
    Wrap(resource.coin + other_resource.coin) = Wrap(total_balance(request))
first_balance_ok(resource, request) ==
    request.other_balance = Wrap(resource.coin + request.amount)

\* faulty variant: the balances are stored from the proposer's perspective
conform_data_unswapped(request) ==
    ChannelLocalData(request.version, request.self_balance, request.other_balance,
                     NoSig, request.signature)

\* the local data conform stores on success
conform_data(request) ==
    ChannelLocalData(request.version, request.other_balance, request.self_balance,
                     NoSig, request.signature)

\* faulty variant: the reply names the proposer as its sender
conform_reply_from_proposer(c, request) == TransferConform(request.sender, NoSig, request)

\* the TransferConform conform returns on success
conform_reply(c, request) == TransferConform(c.self_address, NoSig, request)

conform(c, request, bld) ==
    LET reply == conform_reply(c, request) IN
    IF ~is_ready(c) THEN Err("channel is not ready", c)
    ELSE IF c.data # None THEN
        LET data == c.data[1] IN
        IF bld = "debug" /\ Overflows(data.version + 1) THEN Panic(c)
        ELSE IF ~version_ok(data, request) THEN Err("check version fail", c)
        ELSE IF bld = "debug" /\ Overflows(data.self_balance + request.amount) THEN Panic(c)
        ELSE IF ~balance_ok(data, request) THEN Err("balance check fail.", c)
        ELSE IF bld = "debug" /\ (\/ Overflows(total_balance(data))
                                  \/ Overflows(total_balance(request)))
        THEN Panic(c)
        ELSE IF ~total_ok(data, request) THEN Err("balance check fail.", c)
        ELSE Ok(reply, [c EXCEPT !.data = Some(conform_data(request))])
    ELSE
        IF ~first_version_ok(request) THEN Err("check version fail", c)
        ELSE IF c.self_status.tag = "Open" /\ c.other_status.tag = "Open" THEN
            LET resource == c.self_status.resource
                other_resource == c.other_status.resource IN
            IF ~first_coverage_ok(other_resource, request) THEN Err("balance not enough.", c)
            ELSE IF bld = "debug" /\ (\/ Overflows(resource.coin + other_resource.coin)
                                      \/ Overflows(total_balance(request)))
            THEN Panic(c)
            ELSE IF ~first_total_ok(resource, other_resource, request)
            THEN Err("balance check fail.", c)
            ELSE IF bld = "debug" /\ Overflows(resource.coin + request.amount) THEN Panic(c)
            ELSE IF ~first_balance_ok(resource, request) THEN Err("balance check fail.", c)
            ELSE Ok(reply, [c EXCEPT !.data = Some(conform_data(request))])
        ELSE Err("unexpect channel status.", c)

\* faulty variants: the two signatures are stored on the wrong sides; the balances
\* are stored from the counterparty's perspective
process_data_signatures_crossed(cf) ==
    ChannelLocalData(cf.request.version, cf.request.self_balance, cf.request.other_balance,
                     cf.signature, cf.request.signature)
process_data_balances_swapped(cf) ==
    ChannelLocalData(cf.request.version, cf.request.other_balance, cf.request.self_balance,
                     cf.request.signature, cf.signature)

\* the local data process_transfer_conform stores
process_data(cf) ==
    ChannelLocalData(cf.request.version, cf.request.self_balance, cf.request.other_balance,
                     cf.request.signature, cf.signature)

\* faulty variant: the local data is written before the readiness check
process_transfer_conform_store_first(c, cf) ==
    IF ~is_ready(c)
    THEN Err("channel is not ready", [c EXCEPT !.data = Some(process_data(cf))])
    ELSE Ok(<<>>, [c EXCEPT !.data = Some(process_data(cf))])

\* faulty variant: existing local data is updated, absent local data is not created
process_transfer_conform_update_only(c, cf) ==
    IF ~is_ready(c) THEN Err("channel is not ready", c)
    ELSE IF c.data = None THEN Ok(<<>>, c)
    ELSE Ok(<<>>, [c EXCEPT !.data = Some(process_data(cf))])

process_transfer_conform(c, cf) ==
    IF ~is_ready(c) THEN Err("channel is not ready", c)
    ELSE Ok(<<>>, [c EXCEPT !.data = Some(process_data(cf))])

\* faulty variants: the two sides taken for each other; a status reset when the
\* resource belongs to neither side; the local data dropped when a side closes
update_with_resource_sides_crossed(c, channel_resource, proof_resource) ==
    IF channel_resource.other = c.other_address THEN
        IF channel_resource.closed
        THEN [c EXCEPT !.other_status = StatusClosed(channel_resource, proof_resource)]
        ELSE [c EXCEPT !.other_status = StatusOpen(channel_resource)]
    ELSE IF channel_resource.other = c.self_address THEN
        IF channel_resource.closed
        THEN [c EXCEPT !.self_status = StatusClosed(channel_resource, proof_resource)]
        ELSE [c EXCEPT !.self_status = StatusOpen(channel_resource)]
    ELSE c
update_with_resource_reset_on_stranger(c, channel_resource, proof_resource) ==
    IF channel_resource.other = c.other_address THEN
        IF channel_resource.closed
        THEN [c EXCEPT !.self_status = StatusClosed(channel_resource, proof_resource)]
        ELSE [c EXCEPT !.self_status = StatusOpen(channel_resource)]
    ELSE IF channel_resource.other = c.self_address THEN
        IF channel_resource.closed
        THEN [c EXCEPT !.other_status = StatusClosed(channel_resource, proof_resource)]
        ELSE [c EXCEPT !.other_status = StatusOpen(channel_resource)]
    ELSE [c EXCEPT !.other_status = StatusNone]
update_with_resource_data_dropped(c, channel_resource, proof_resource) ==
    IF channel_resource.other = c.other_address THEN
        IF channel_resource.closed
        THEN [c EXCEPT !.self_status = StatusClosed(channel_resource, proof_resource),
                       !.data = None]
        ELSE [c EXCEPT !.self_status = StatusOpen(channel_resource)]
    ELSE IF channel_resource.other = c.self_address THEN
        IF channel_resource.closed
        THEN [c EXCEPT !.other_status = StatusClosed(channel_resource, proof_resource),
                       !.data = None]
        ELSE [c EXCEPT !.other_status = StatusOpen(channel_resource)]
    ELSE c

update_with_resource(c, channel_resource, proof_resource) ==
    IF channel_resource.other = c.other_address THEN
        IF channel_resource.closed
        THEN [c EXCEPT !.self_status = StatusClosed(channel_resource, proof_resource)]
        ELSE [c EXCEPT !.self_status = StatusOpen(channel_resource)]
    ELSE IF channel_resource.other = c.self_address THEN
        IF channel_resource.closed
        THEN [c EXCEPT !.other_status = StatusClosed(channel_resource, proof_resource)]
        ELSE [c EXCEPT !.other_status = StatusOpen(channel_resource)]
    ELSE c

----------------------------------------------------------------------------
(* The state machine: the channel each account holds for its counterparty. *)

\* the channels built from the on-chain resources of the account (counterparty
\* field = the peer) and of its peer (counterparty field = the account)
NewChannels(a) ==
    {new(a, Peer(a), ChannelResource(Peer(a), sc, scl), oc, sp, op) :
        sc \in 0..MaxCoin, scl \in BOOLEAN,
        oc \in {None} \cup {Some(ChannelResource(a, c, cl)) : c \in 0..MaxCoin, cl \in BOOLEAN},
        sp \in OptProofs, op \in OptProofs}

\* the call made last: the account, the operation, how it ended, what it returned
\* (Some(value) on Ok), and whether the channel held local data when it was made
Called(a, op, outcome, value, had_data) ==
    [account |-> a, op |-> op, outcome |-> outcome, value |-> value, had_data |-> had_data]

\* what a call returned to its caller
Returned(r) == IF r.outcome = "Ok" THEN Some(r.value) ELSE None

\* the parts of the state a specification does not use stay empty
NoWire == wire = {}
NoLedger == channels = <<>>
NoSnapshot == account_map = <<>> /\ account_state = None

InitAccounts(accounts) ==
    /\ chan \in [accounts -> UNION {NewChannels(a) : a \in accounts}]
    /\ \A a \in accounts : chan[a].self_address = a
    /\ build \in Builds
    /\ last = Called("A", "new", "Ok", None, FALSE)
    /\ NoWire /\ NoLedger /\ NoSnapshot

Init == InitAccounts({"A"})

\* a panic aborts the client process: nothing runs after it
Running == last.outcome # "panic"

UpdateWithResource ==
    /\ Running
    /\ \E a \in DOMAIN chan, channel_resource \in ChannelResources, proof_resource \in OptProofs :
          /\ chan' = [chan EXCEPT ![a] =
                         update_with_resource(chan[a], channel_resource, proof_resource)]
          /\ last' = Called(a, "update_with_resource", "Ok", None, chan[a].data # None)
    /\ UNCHANGED <<build, wire, channels, account_map, account_state>>

\* faulty variant: the proposer applies its request to its own local data at once
Transfer_applied ==
    /\ Running
    /\ \E a \in DOMAIN chan, amount \in 0..MaxBal :
          LET r == transfer(chan[a], amount, build) IN
          /\ chan' = [chan EXCEPT ![a].data =
                         IF r.outcome = "Ok"
                         THEN Some(ChannelLocalData(r.value.version, r.value.self_balance,
                                                    r.value.other_balance, NoSig, NoSig))
                         ELSE @]
          /\ last' = Called(a, "transfer", r.outcome, Returned(r), chan[a].data # None)
    /\ UNCHANGED <<build, wire, channels, account_map, account_state>>

Transfer ==
    /\ Running
    /\ \E a \in DOMAIN chan, amount \in 0..MaxBal :
          LET r == transfer(chan[a], amount, build) IN
          /\ chan' = [chan EXCEPT ![a] = r.chan]
          /\ last' = Called(a, "transfer", r.outcome, Returned(r), chan[a].data # None)
    /\ UNCHANGED <<build, wire, channels, account_map, account_state>>

Conform ==
    /\ Running
    /\ \E a \in DOMAIN chan, request \in Requests :
          LET r == conform(chan[a], request, build) IN
          /\ chan' = [chan EXCEPT ![a] = r.chan]
          /\ last' = Called(a, "conform", r.outcome, Returned(r), chan[a].data # None)
    /\ UNCHANGED <<build, wire, channels, account_map, account_state>>

ProcessTransferConform ==
    /\ Running
    /\ \E a \in DOMAIN chan, cf \in Conforms :
          LET r == process_transfer_conform(chan[a], cf) IN
          /\ chan' = [chan EXCEPT ![a] = r.chan]
          /\ last' = Called(a, "process_transfer_conform", r.outcome, None,
                            chan[a].data # None)
    /\ UNCHANGED <<build, wire, channels, account_map, account_state>>

Next ==
    \/ UpdateWithResource
    \/ Transfer
    \/ Conform
    \/ ProcessTransferConform

Spec == Init /\ [][Next]_vars

----------------------------------------------------------------------------
(* The same channel with values at both ends of the u64 range: coins, proofs, *)
(* amounts and request fields of 0, 1, u64::MAX - 1 and u64::MAX.             *)

WideValues == {0, 1, U64_MAX - 1, U64_MAX}

\* versions at both ends of the u64 range
WideVersions == {1, 2, U64_MAX - 1, U64_MAX}

\* proofs read from the chain, with any balances, of the first version or the last
\* but one
WideProofs == {ProofResource(v, sb, ob, NoSig, NoSig) :
                  v \in {1, U64_MAX - 1}, sb \in WideValues, ob \in WideValues}

\* requests handed to the account, from the counterparty, for the first, the
\* second or the last version
WideRequests == {TransferRequest("B", v, a, sb, ob, NoSig) :
                    v \in WideVersions \ {U64_MAX - 1}, a \in {0, 1},
                    sb \in WideValues, ob \in WideValues}

\* ready channels of account A: both sides Open with any coins, with or without the
\* local data of a proof
InitWide ==
    /\ \E sc \in WideValues, oc \in WideValues,
          sp \in {None} \cup {Some(p) : p \in WideProofs} :
          chan = [a \in {"A"} |->
                     new("A", "B", ChannelResource("B", sc, FALSE),
                         Some(ChannelResource("A", oc, FALSE)), sp, None)]
    /\ build \in Builds
    /\ last = Called("A", "new", "Ok", None, FALSE)
    /\ NoWire /\ NoLedger /\ NoSnapshot

\* amounts at both ends of the u64 range and in its middle (2^63 in the program)
WideAmounts == WideValues \cup {(U64_MAX + 1) \div 2}

TransferWide ==
    /\ Running
    /\ \E a \in DOMAIN chan, amount \in WideAmounts :
          LET r == transfer(chan[a], amount, build) IN
          /\ chan' = [chan EXCEPT ![a] = r.chan]
          /\ last' = Called(a, "transfer", r.outcome, Returned(r), chan[a].data # None)
    /\ UNCHANGED <<build, wire, channels, account_map, account_state>>

ConformWide ==
    /\ Running
    /\ \E a \in DOMAIN chan, request \in WideRequests :
          LET r == conform(chan[a], request, build) IN
          /\ chan' = [chan EXCEPT ![a] = r.chan]
          /\ last' = Called(a, "conform", r.outcome, Returned(r), chan[a].data # None)
    /\ UNCHANGED <<build, wire, channels, account_map, account_state>>

NextWide ==
    \/ TransferWide
    \/ ConformWide

SpecWide == InitWide /\ [][NextWide]_vars

----------------------------------------------------------------------------
(* The two parties of a channel: A and B hold a channel each, built from the  *)
(* same on-chain resources, and hand each other the requests and conforms     *)
(* their commands print.                                                      *)

\* a request or a conform on its way to an account
Message(to, kind, body) == [to |-> to, kind |-> kind, body |-> body]

\* both channels ready, with no local data and the same view of the on-chain coins
\* (each side holding nothing or MaxCoin)
InitPair ==
    /\ \E self_coin \in {0, MaxCoin}, other_coin \in {0, MaxCoin} :
          chan = [a \in {"A", "B"} |->
                     IF a = "A"
                     THEN new("A", "B", ChannelResource("B", self_coin, FALSE),
                              Some(ChannelResource("A", other_coin, FALSE)), None, None)
                     ELSE new("B", "A", ChannelResource("A", other_coin, FALSE),
                              Some(ChannelResource("B", self_coin, FALSE)), None, None)]
    /\ build \in Builds
    /\ last = Called("A", "new", "Ok", None, FALSE)
    /\ NoWire /\ NoLedger /\ NoSnapshot

\* the transfer command: the request is printed for the other party
SendRequest ==
    /\ Running
    /\ Cardinality(wire) < MaxInFlight
    /\ \E a \in DOMAIN chan, amount \in {0, MaxBal} :
          LET r == transfer(chan[a], amount, build) IN
          /\ chan[a].data # None => chan[a].data[1].version <= MaxVersion
          /\ chan' = [chan EXCEPT ![a] = r.chan]
          /\ wire' = IF r.outcome = "Ok"
                     THEN wire \cup {Message(Peer(a), "request", r.value)}
                     ELSE wire
          /\ last' = Called(a, "transfer", r.outcome, Returned(r), chan[a].data # None)
    /\ UNCHANGED <<build, channels, account_map, account_state>>

\* the conform command on a request received: the conform is printed for the
\* other party
ReceiveRequest ==
    /\ Running
    /\ \E m \in wire :
          /\ m.kind = "request"
          /\ LET r == conform(chan[m.to], m.body, build) IN
             /\ chan' = [chan EXCEPT ![m.to] = r.chan]
             /\ wire' = (wire \ {m}) \cup
                            IF r.outcome = "Ok"
                            THEN {Message(Peer(m.to), "conform", r.value)}
                            ELSE {}
             /\ last' = Called(m.to, "conform", r.outcome, Returned(r),
                               chan[m.to].data # None)
    /\ UNCHANGED <<build, channels, account_map, account_state>>

\* the process-conform command on a conform received
ReceiveConform ==
    /\ Running
    /\ \E m \in wire :
          /\ m.kind = "conform"
          /\ LET r == process_transfer_conform(chan[m.to], m.body) IN
             /\ chan' = [chan EXCEPT ![m.to] = r.chan]
             /\ wire' = wire \ {m}
             /\ last' = Called(m.to, "process_transfer_conform", r.outcome, None,
                               chan[m.to].data # None)
    /\ UNCHANGED <<build, channels, account_map, account_state>>

NextPair ==
    \/ SendRequest
    \/ ReceiveRequest
    \/ ReceiveConform

SpecPair == InitPair /\ [][NextPair]_vars

----------------------------------------------------------------------------
(* AccountData: the channels one account keeps, by counterparty.           *)

\* HashMap::insert, HashMap::remove, HashMap::get_mut
insert(map, key, value) ==
    [k \in DOMAIN map \cup {key} |-> IF k = key THEN value ELSE map[k]]
remove(map, key) == [k \in DOMAIN map \ {key} |-> map[k]]
get_mut(map, key) == IF key \in DOMAIN map THEN Some(map[key]) ELSE None

\* faulty variant: the channel is filed under its owner
append_channel_by_owner(account_channels, channel) ==
    insert(account_channels, channel.self_address, channel)

append_channel(account_channels, channel) ==
    insert(account_channels, channel.other_address, channel)

delete_channel(account_channels, other) == remove(account_channels, other)

get_channel(account_channels, other) == get_mut(account_channels, other)

\* the counterparties of account A
Counterparties == {"B", "C"}

\* the channels account A files: with either counterparty, with any coin of its
\* own, with or without the counterparty's side and the local data of a proof
LedgerChannels ==
    {new("A", o, ChannelResource(o, sc, FALSE), oc, sp, None) :
        o \in Counterparties, sc \in 0..MaxCoin,
        oc \in {None, Some(ChannelResource("A", MaxCoin, FALSE))}, sp \in OptProofs}

\* the requests handed to account A by a counterparty
LedgerRequests == {TransferRequest(o, 1, 0, sb, ob, NoSig) :
                      o \in Counterparties, sb \in 0..MaxBal, ob \in 0..MaxBal}

InitLedger ==
    /\ channels = <<>>
    /\ chan = <<>>
    /\ build \in Builds
    /\ last = Called("A", "new", "Ok", None, FALSE)
    /\ NoWire /\ NoSnapshot

AppendChannel ==
    /\ Running
    /\ \E channel \in LedgerChannels :
          /\ channels' = append_channel(channels, channel)
          /\ last' = Called("A", "append_channel", "Ok", Some(channel), FALSE)
    /\ UNCHANGED <<chan, build, wire, account_map, account_state>>

DeleteChannel ==
    /\ Running
    /\ \E other \in Counterparties :
          /\ channels' = delete_channel(channels, other)
          /\ last' = Called("A", "delete_channel", "Ok", Some(other), FALSE)
    /\ UNCHANGED <<chan, build, wire, account_map, account_state>>

GetChannel ==
    /\ Running
    /\ \E other \in Counterparties :
          last' = Called("A", "get_channel", "Ok",
                         Some([other |-> other, channel |-> get_channel(channels, other)]),
                         FALSE)
    /\ UNCHANGED <<chan, build, wire, channels, account_map, account_state>>

\* the conform command: the channel with the sender of the request is looked up
\* and conform runs on it in place
ConformCommand ==
    /\ Running
    /\ \E request \in LedgerRequests :
          LET other_address == request.sender
              found == get_channel(channels, other_address) IN
          IF found = None
          THEN /\ last' = Called("A", "conform", "get channel offchain data fail.",
                                 None, FALSE)
               /\ UNCHANGED channels
          ELSE LET r == conform(found[1], request, build) IN
               /\ channels' = [channels EXCEPT ![other_address] = r.chan]
               /\ last' = Called("A", "conform", r.outcome, Returned(r),
                                 found[1].data # None)
    /\ UNCHANGED <<chan, build, wire, account_map, account_state>>

NextLedger ==
    \/ AppendChannel
    \/ DeleteChannel
    \/ GetChannel
    \/ ConformCommand

SpecLedger == InitLedger /\ [][NextLedger]_vars

----------------------------------------------------------------------------
(* The channel commands of account A (client/src/channel_commands.rs): each  *)
(* is one handler, from the synchronisation with the chain to its last call. *)

\* what a synchronisation fetches from the chain for the pair (A, other): nothing
\* at all when the query fails, else A's channel resource (absent, open without or
\* with a proof, or closed with its proof) and the counterparty's (absent or open);
\* the channel with C is never closed and has no proof
Fetched(other) ==
    {None} \cup
    {Some([self |-> f[1], other |-> orr, proof |-> f[2]]) :
        f \in {<<None, None>>, <<Some(ChannelResource(other, MaxCoin, FALSE)), None>>} \cup
              IF other = "B"
              THEN {<<Some(ChannelResource(other, MaxCoin, cl)), Some(p)>> :
                       cl \in BOOLEAN, p \in Proofs}
              ELSE {},
        orr \in {None, Some(ChannelResource("A", MaxCoin, FALSE))}}

\* the local accounts: A is the only account of the wallet
get_account_data(address, account_channels) ==
    IF address = "A" THEN Some(account_channels) ELSE None

\* the synchronisation: a failed query changes nothing; a channel that is not yet
\* filed is built from the resources fetched, a channel that is filed is updated
\* with them
sync_channel_status(account_channels, address, other_address, fetched) ==
    IF fetched = None
    THEN [outcome |-> "sync_channel_status error", channels |-> account_channels]
    ELSE IF get_account_data(address, account_channels) = None
    THEN [outcome |-> "Ok", channels |-> account_channels]
    ELSE LET found == get_channel(account_channels, other_address)
             f == fetched[1] IN
         IF found = None
         THEN [outcome |-> "Ok",
               channels |-> IF f.self = None THEN account_channels
                            ELSE append_channel(account_channels,
                                     new(address, other_address, f.self[1], f.other,
                                         f.proof, None))]
         ELSE LET own == IF f.self = None THEN found[1]
                         ELSE update_with_resource(found[1], f.self[1], f.proof)
                  both == IF f.other = None THEN own
                          ELSE update_with_resource(own, f.other[1], None) IN
              [outcome |-> "Ok",
               channels |-> [account_channels EXCEPT ![other_address] = both]]

\* how a command ended: its message, the calls it made in order, the ledger it
\* leaves, what it printed and the script it ran
Done(outcome, calls, account_channels, printed, script) ==
    [outcome |-> outcome, calls |-> calls, channels |-> account_channels,
     printed |-> printed, script |-> script]

\* faulty variant: the channel is looked up without a synchronisation
find_synced_channel_unsynced(account_channels, address, other_address, fetched, missing) ==
    IF get_account_data(address, account_channels) = None
    THEN Done("get account data fail.", <<"get_account_data">>, account_channels, None, None)
    ELSE IF get_channel(account_channels, other_address) = None
    THEN Done(missing, <<"get_account_data", "get_channel">>, account_channels, None, None)
    ELSE Done("Ok", <<"get_account_data", "get_channel">>, account_channels, None, None)

\* the common opening of the three off-chain commands: synchronise, find the
\* account, find its channel with the counterparty
find_synced_channel(account_channels, address, other_address, fetched, missing) ==
    LET s == sync_channel_status(account_channels, address, other_address, fetched) IN
    IF s.outcome # "Ok"
    THEN Done("sync_channel_status error", <<"sync_channel_status">>, s.channels, None, None)
    ELSE IF get_account_data(address, s.channels) = None
    THEN Done("get account data fail.", <<"sync_channel_status", "get_account_data">>,
              s.channels, None, None)
    ELSE IF get_channel(s.channels, other_address) = None
    THEN Done(missing, <<"sync_channel_status", "get_account_data", "get_channel">>,
              s.channels, None, None)
    ELSE Done("Ok", <<"sync_channel_status", "get_account_data", "get_channel">>,
              s.channels, None, None)

\* the end of an off-chain command: the operation's result r on the channel found
Operated(found, other_address, op, r) ==
    Done(r.outcome, Append(found.calls, op),
         [found.channels EXCEPT ![other_address] = r.chan], Returned(r), None)

offchain_transfer_execute(account_channels, address, other_address, amount, fetched, bld) ==
    LET found == find_synced_channel(account_channels, address, other_address, fetched,
                                     "get channel data fail.") IN
    IF found.outcome # "Ok" THEN found
    ELSE Operated(found, other_address, "transfer",
                  transfer(found.channels[other_address], amount, bld))

offchain_conform_execute(account_channels, address, request, fetched, bld) ==
    LET other_address == request.sender
        found == find_synced_channel(account_channels, address, other_address, fetched,
                                     "get channel offchain data fail.") IN
    IF found.outcome # "Ok" THEN found
    ELSE Operated(found, other_address, "conform",
                  conform(found.channels[other_address], request, bld))

offchain_process_conform_execute(account_channels, address, cf, fetched) ==
    LET other_address == cf.sender
        found == find_synced_channel(account_channels, address, other_address, fetched,
                                     "get channel offchain data fail.") IN
    IF found.outcome # "Ok" THEN found
    ELSE Operated(found, other_address, "process_transfer_conform",
                  process_transfer_conform(found.channels[other_address], cf))

\* a script handed to execute_script with its arguments
Script(template, args) == [template |-> template, args |-> args]

\* faulty variant: the plain close script is run whatever the channel holds
close_script_plain_only(channel, other_address) ==
    Script("CHANNEL_CLOSE_TEMPLATE", <<other_address>>)

\* the script the close command runs for a channel
close_script(channel, other_address) ==
    IF channel.data # None
    THEN LET offchain_data == channel.data[1] IN
         Script("CHANNEL_CLOSE_WITH_PROOF_TEMPLATE",
                <<other_address, offchain_data.version, offchain_data.self_balance,
                  offchain_data.other_balance, offchain_data.self_signature,
                  offchain_data.other_signature>>)
    ELSE Script("CHANNEL_CLOSE_TEMPLATE", <<other_address>>)

\* the close command: the script's result and the result of the synchronisation
\* that follows are both dropped
close_execute(account_channels, address, other_address, fetched) ==
    IF get_account_data(address, account_channels) = None
    THEN Done("get account data fail.", <<"get_account_data">>, account_channels, None, None)
    ELSE IF get_channel(account_channels, other_address) = None
    THEN Done("get channel with address fail.", <<"get_account_data", "get_channel">>,
              account_channels, None, None)
    ELSE LET channel == get_channel(account_channels, other_address)[1]
             s == sync_channel_status(account_channels, address, other_address, fetched) IN
         Done("Ok", <<"get_account_data", "get_channel", "execute_script",
                      "sync_channel_status">>,
              s.channels, None, Some(close_script(channel, other_address)))

\* the accounts a command is given as its own, the requests and conforms pasted
\* into it
CommandAccounts == {"A", "C"}
CommandRequests == {TransferRequest(o, 1, 0, sb, MaxCoin, <<7>>) :
                       o \in Counterparties, sb \in {0, MaxCoin}}
CommandConforms == {TransferConform(o, NoSig, TransferRequest("A", MaxVersion + 1, MaxBal,
                                                              0, MaxBal, <<7>>)) :
                       o \in Counterparties}

InitCommands ==
    /\ channels = <<>>
    /\ chan = <<>>
    /\ build \in Builds
    /\ last = Called("A", "new", "Ok", None, FALSE)
    /\ NoWire /\ NoSnapshot

\* the ledger a command leaves, and the record of the command: what it was given
\* as the counterparty, and how it ended
Commanded(address, op, other_address, d) ==
    /\ channels' = d.channels
    /\ last' = Called(address, op, d.outcome,
                      Some([other |-> other_address, calls |-> d.calls,
                            printed |-> d.printed, script |-> d.script]),
                      /\ other_address \in DOMAIN channels
                      /\ channels[other_address].data # None)
    /\ UNCHANGED <<chan, build, wire, account_map, account_state>>

OffchainTransferCommand ==
    /\ Running
    /\ \E address \in CommandAccounts, other_address \in Counterparties,
          amount \in {MaxBal} :
          \E fetched \in Fetched(other_address) :
              Commanded(address, "transfer_command", other_address,
                        offchain_transfer_execute(channels, address, other_address,
                                                  amount, fetched, build))

OffchainConformCommand ==
    /\ Running
    /\ \E address \in CommandAccounts, request \in CommandRequests :
          \E fetched \in Fetched(request.sender) :
              Commanded(address, "conform_command", request.sender,
                        offchain_conform_execute(channels, address, request, fetched,
                                                 build))

OffchainProcessConformCommand ==
    /\ Running
    /\ \E address \in CommandAccounts, cf \in CommandConforms :
          \E fetched \in Fetched(cf.sender) :
              Commanded(address, "process_conform_command", cf.sender,
                        offchain_process_conform_execute(channels, address, cf, fetched))

CloseCommand ==
    /\ Running
    /\ \E address \in CommandAccounts, other_address \in Counterparties :
          \E fetched \in Fetched(other_address) :
              Commanded(address, "close_command", other_address,
                        close_execute(channels, address, other_address, fetched))

NextCommands ==
    \/ OffchainTransferCommand
    \/ OffchainConformCommand
    \/ OffchainProcessConformCommand
    \/ CloseCommand

SpecCommands == InitCommands /\ [][NextCommands]_vars

----------------------------------------------------------------------------
(* The on-chain resources and their canonical codec (client/src/resource.rs). *)

\* width in bytes of a u64, of the length prefix of a byte sequence, and of an
\* account address
U64_LENGTH == 8
PREFIX_LENGTH == 4
ADDRESS_LENGTH == 32

\* the bytes of an account address: A is 0a0a..0a, B is 0b0b..0b, C is 0c0c..0c
AddressByte(a) == CASE a = "A" -> 10 [] a = "B" -> 11 [] a = "C" -> 12 [] OTHER -> 63
AddressBytes(a) == [i \in 1..ADDRESS_LENGTH |-> AddressByte(a)]
\* AccountAddress::try_from(bytes); "?" is an address of no account of the model
AddressOf(bytes) ==
    IF \E a \in Addresses : AddressBytes(a) = bytes
    THEN CHOOSE a \in Addresses : AddressBytes(a) = bytes
    ELSE "?"

\* n bytes, least significant first
RECURSIVE to_le_bytes(_, _)
to_le_bytes(x, n) ==
    IF n = 0 THEN <<>> ELSE <<x % 256>> \o to_le_bytes(x \div 256, n - 1)

\* the number a sequence of bytes stands for, least significant first; a number
\* beyond the stand-in for u64::MAX is read as that stand-in
RECURSIVE from_le_bytes(_)
from_le_bytes(bytes) ==
    IF bytes = <<>>
    THEN 0
    ELSE LET high == from_le_bytes(Tail(bytes)) IN
         IF high > (U64_MAX - Head(bytes)) \div 256
         THEN U64_MAX
         ELSE Head(bytes) + 256 * high

\* what is left of a byte buffer after its first n bytes
Rest(bytes, n) == SubSeq(bytes, n + 1, Len(bytes))

\* one decoding step: the value read and the bytes left, or a failure
Decoded(value, rest) == [ok |-> TRUE, value |-> value, rest |-> rest]
DecodeError == [ok |-> FALSE]

encode_u64(x) == to_le_bytes(x, U64_LENGTH)

decode_u64(bytes) ==
    IF Len(bytes) < U64_LENGTH
    THEN DecodeError
    ELSE Decoded(from_le_bytes(SubSeq(bytes, 1, U64_LENGTH)), Rest(bytes, U64_LENGTH))

\* a byte sequence: its length, then its bytes
encode_variable_length_bytes(v) == to_le_bytes(Len(v), PREFIX_LENGTH) \o v

decode_variable_length_bytes(bytes) ==
    IF Len(bytes) < PREFIX_LENGTH
    THEN DecodeError
    ELSE LET n == from_le_bytes(SubSeq(bytes, 1, PREFIX_LENGTH))
             body == Rest(bytes, PREFIX_LENGTH) IN
         IF Len(body) < n THEN DecodeError ELSE Decoded(SubSeq(body, 1, n), Rest(body, n))

\* the type of each field of the resources: a u64, an AccountAddress or a ByteArray
FieldType(field) ==
    CASE field \in {"value", "coin", "height", "version", "self_balance", "other_balance"}
             -> "u64"
      [] field = "other" -> "AccountAddress"
      [] field \in {"self_signature", "other_signature"} -> "ByteArray"

\* encode_u64 of a number, encode_struct of an address or of a byte array
encode_field(field, x) ==
    CASE FieldType(field) = "u64" -> encode_u64(x)
      [] FieldType(field) = "AccountAddress" -> encode_variable_length_bytes(AddressBytes(x))
      [] FieldType(field) = "ByteArray" -> encode_variable_length_bytes(x)

\* decode_u64 of a number, decode_struct of an address or of a byte array
decode_field(field, bytes) ==
    CASE FieldType(field) = "u64" -> decode_u64(bytes)
      [] FieldType(field) = "AccountAddress" ->
             LET d == decode_variable_length_bytes(bytes) IN
             IF d.ok /\ Len(d.value) = ADDRESS_LENGTH
             THEN Decoded(AddressOf(d.value), d.rest)
             ELSE DecodeError
      [] FieldType(field) = "ByteArray" -> decode_variable_length_bytes(bytes)

\* the kinds of resource: the variants of Resource
Kinds == {"EToken", "Channel", "ClosedChannel", "Proof"}

\* the fields of each kind, in the order the struct declares them
DeclaredFields(kind) ==
    CASE kind = "EToken" -> <<"value">>
      [] kind = "Channel" -> <<"other", "coin">>
      [] kind = "ClosedChannel" -> <<"other", "coin", "height">>
      [] kind = "Proof" -> <<"version", "self_balance", "other_balance",
                             "self_signature", "other_signature">>

\* faulty variant: the fields are written in the order the struct declares them
write_order_declared(kind) == DeclaredFields(kind)

\* the order serialize writes the fields in
write_order(kind) ==
    CASE kind = "EToken" -> <<"value">>
      [] kind = "Channel" -> <<"coin", "other">>
      [] kind = "ClosedChannel" -> <<"coin", "height", "other">>
      [] kind = "Proof" -> <<"other_balance", "other_signature", "self_balance",
                             "self_signature", "version">>

\* faulty variant: the fields are read in the order the struct declares them
read_order_declared(kind) == DeclaredFields(kind)

\* the order deserialize reads the fields in
read_order(kind) ==
    CASE kind = "EToken" -> <<"value">>
      [] kind = "Channel" -> <<"coin", "other">>
      [] kind = "ClosedChannel" -> <<"coin", "height", "other">>
      [] kind = "Proof" -> <<"other_balance", "other_signature", "self_balance",
                             "self_signature", "version">>

\* the encodings of the fields of a value, one after the other in the given order
RECURSIVE encode_fields(_, _)
encode_fields(order, v) ==
    IF order = <<>>
    THEN <<>>
    ELSE encode_field(Head(order), v[Head(order)]) \o encode_fields(Tail(order), v)

serialize(kind, v) == encode_fields(write_order(kind), v)

\* the fields read from a buffer one after the other in the given order, added to
\* the fields read so far; the first failure ends the reading
RECURSIVE decode_fields(_, _, _)
decode_fields(order, bytes, fields) ==
    IF order = <<>>
    THEN Decoded(fields, bytes)
    ELSE LET d == decode_field(Head(order), bytes) IN
         IF d.ok
         THEN decode_fields(Tail(order), d.rest, fields @@ (Head(order) :> d.value))
         ELSE DecodeError

deserialize(kind, bytes) == decode_fields(read_order(kind), bytes, <<>>)

\* the result of a look-up or of a decoding
Found(value) == [outcome |-> "Ok", value |-> Some(value)]
Failed(msg) == [outcome |-> msg, value |-> None]

\* SimpleDeserializer::deserialize: the value the whole buffer decodes to
SimpleDeserializer_deserialize(kind, bytes) ==
    LET d == deserialize(kind, bytes) IN
    IF d.ok /\ d.rest = <<>> THEN Found(d.value) ELSE Failed("DecodeError")

----------------------------------------------------------------------------
(* Resources looked up in an account snapshot (client/src/resource.rs) and   *)
(* the decoded account state (client/src/account_state.rs).                  *)

DEFAULT_STRUCT_NAME == "T"
ETOKEN_MODULE_NAME == "EToken"
CHANNEL_MODULE_NAME == "Channel"
CLOSED_STRUCT_NAME == "ClosedChannel"
PROOF_STRUCT_NAME == "Proof"

StructTag(address, module, name) == [address |-> address, module |-> module, name |-> name]

\* AccessPath::resource_access_vec: a key of the snapshot, one per struct tag
resource_access_vec(tag) == <<tag.address, tag.module, tag.name>>

resource_path(module_address, module_name, struct_name) ==
    resource_access_vec(StructTag(module_address, module_name, struct_name))

\* the module name and the struct name make_from of each kind passes to resource_path
module_name_of(kind) ==
    IF kind = "EToken" THEN ETOKEN_MODULE_NAME ELSE CHANNEL_MODULE_NAME
struct_name_of(kind) ==
    CASE kind = "ClosedChannel" -> CLOSED_STRUCT_NAME
      [] kind = "Proof" -> PROOF_STRUCT_NAME
      [] OTHER -> DEFAULT_STRUCT_NAME

\* faulty variant: every kind is looked up under the default struct name
make_from_default_struct(kind, module_address, map) ==
    LET ap == resource_path(module_address, module_name_of(kind), DEFAULT_STRUCT_NAME) IN
    IF ap \in DOMAIN map
    THEN SimpleDeserializer_deserialize(kind, map[ap])
    ELSE Failed("No data")

\* ETokenResource / ChannelResource / ClosedChannelResource / ProofResource::make_from
make_from(kind, module_address, map) ==
    LET ap == resource_path(module_address, module_name_of(kind), struct_name_of(kind)) IN
    IF ap \in DOMAIN map
    THEN SimpleDeserializer_deserialize(kind, map[ap])
    ELSE Failed("No data")

\* Resource::EToken(..), Resource::Channel(..), Resource::ClosedChannel(..),
\* Resource::Proof(..): the kind and the value, if there is one
Resource(kind, value) == [kind |-> kind, value |-> value]

ModuleRegistryEntry(name, account) == [name |-> name, account |-> account]

\* the kinds of resource a registered module declares
ModuleKinds(name) ==
    CASE name = "etoken" -> <<"EToken">>
      [] name = "channel" -> <<"Channel", "ClosedChannel", "Proof">>
      [] OTHER -> <<>>

\* ModuleRegistryEntry::get_resource: each resource of the module, nothing in
\* the place of one that is absent or does not decode
get_resource(module, map) ==
    [i \in 1..Len(ModuleKinds(module.name)) |->
        Resource(ModuleKinds(module.name)[i],
                 make_from(ModuleKinds(module.name)[i], module.account, map).value)]

\* an account state blob: the bytes of a snapshot, or bytes that are no snapshot
Blob(map) == [decodable |-> TRUE, map |-> map]
UndecodableBlob == [decodable |-> FALSE]

\* TryFrom<&AccountStateBlob> for BTreeMap
try_into(blob) == IF blob.decodable THEN Found(blob.map) ELSE Failed("DecodeError")

\* the loop of from_blob: the resources of each module, filed under its name
RECURSIVE module_resources(_, _, _)
module_resources(module_registry, map, resources) ==
    IF module_registry = <<>>
    THEN resources
    ELSE module_resources(Tail(module_registry), map,
                          insert(resources, Head(module_registry).name,
                                 get_resource(Head(module_registry), map)))

AccountState(resources) == [account_resource |-> "default", resources |-> resources]

\* faulty variant: decoding stops at the first module with a resource missing
from_blob_until_missing(blob, module_registry) ==
    LET map == try_into(blob) IN
    IF map.outcome # "Ok"
    THEN map
    ELSE LET Complete(i) == \A r \in Range(get_resource(module_registry[i], map.value[1])) :
                                r.value # None
             n == IF \A i \in 1..Len(module_registry) : Complete(i)
                  THEN Len(module_registry)
                  ELSE (CHOOSE i \in 1..Len(module_registry) :
                           ~Complete(i) /\ \A j \in 1..(i - 1) : Complete(j)) - 1 IN
         Found(AccountState(module_resources(SubSeq(module_registry, 1, n),
                                             map.value[1], <<>>)))

from_blob(blob, module_registry) ==
    LET map == try_into(blob) IN
    IF map.outcome # "Ok"
    THEN map
    ELSE Found(AccountState(module_resources(module_registry, map.value[1], <<>>)))

\* [&[T]]::concat
RECURSIVE concat(_)
concat(slices) == IF slices = <<>> THEN <<>> ELSE Head(slices) \o concat(Tail(slices))

\* the resources of all modules, module after module in the order the HashMap
\* iterates over its keys
Scan(resources, order) == concat([i \in 1..Len(order) |-> resources[order[i]]])

\* the predicates callers look resources up with: any resource of a kind, any
\* resource that is there, the proof if it is there
Filters == {"Channel", "present", "Proof"}
Matches(filter, r) ==
    CASE filter = "present" -> r.value # None
      [] filter = "Proof" -> r.kind = "Proof" /\ r.value # None
      [] OTHER -> r.kind = filter

\* Iterator::find
find(items, filter) ==
    IF \E i \in 1..Len(items) : Matches(filter, items[i])
    THEN Some(items[CHOOSE i \in 1..Len(items) :
                       Matches(filter, items[i])
                           /\ \A j \in 1..(i - 1) : ~Matches(filter, items[j])])
    ELSE None

\* faulty variant: the last match of the scan is returned
find_resource_last_match(resources, order, filter) ==
    LET items == Scan(resources, order) IN
    IF \E i \in 1..Len(items) : Matches(filter, items[i])
    THEN Some(items[CHOOSE i \in 1..Len(items) :
                       Matches(filter, items[i])
                           /\ \A j \in (i + 1)..Len(items) : ~Matches(filter, items[j])])
    ELSE None

find_resource(resources, order, filter) == find(Scan(resources, order), filter)

\* the orders a HashMap can iterate over a set of keys in
IterationOrders(keys) ==
    {order \in [1..Cardinality(keys) -> keys] :
        \A i, j \in 1..Cardinality(keys) : order[i] = order[j] => i = j}

\* the values of each kind held by the snapshots
ResourceValues(kind) ==
    CASE kind = "EToken" -> {[value |-> MaxBal]}
      [] kind = "Channel" -> {[other |-> "B", coin |-> c] : c \in {0, MaxCoin}}
      [] kind = "ClosedChannel" ->
             {[other |-> "B", coin |-> MaxCoin, height |-> MaxCoin + 1]}
      [] kind = "Proof" ->
             {[version |-> MaxVersion + 1, self_balance |-> MaxBal, other_balance |-> 0,
               self_signature |-> <<7>>, other_signature |-> <<8>>]}

\* a buffer cut short by one byte
Truncated(bytes) == SubSeq(bytes, 1, Len(bytes) - 1)

\* what a snapshot holds under the path of a kind: nothing, the bytes of a value,
\* or, for a channel resource and a proof, the bytes of a value cut short
StoredBytes(kind) ==
    LET encoded == {serialize(kind, v) : v \in ResourceValues(kind)} IN
    {None} \cup {Some(b) : b \in encoded}
           \cup IF kind \in {"Channel", "Proof"}
                THEN {Some(Truncated(CHOOSE b \in encoded : TRUE))}
                ELSE {}

\* the accounts the EToken module and the Channel module are published under
ModuleAccount(kind) == IF kind = "EToken" THEN "A" ELSE "B"

KindPath(kind) == resource_path(ModuleAccount(kind), module_name_of(kind), struct_name_of(kind))

\* the snapshots of an account: any choice of what is stored for each kind
Snapshots ==
    {[p \in {KindPath(k) : k \in {k \in Kinds : stored[k] # None}} |->
         stored[CHOOSE k \in Kinds : KindPath(k) = p][1]] :
        stored \in {f \in [Kinds -> UNION {StoredBytes(k) : k \in Kinds}] :
                       \A k \in Kinds : f[k] \in StoredBytes(k)}}

\* module registries: up to two modules, no name twice
RegistryEntries == {ModuleRegistryEntry("etoken", "A"), ModuleRegistryEntry("etoken", "B"),
                    ModuleRegistryEntry("channel", "B")}
Registries ==
    {<<>>} \cup {<<m>> : m \in RegistryEntries}
           \cup {pair \in RegistryEntries \X RegistryEntries : pair[1].name # pair[2].name}

InitSnapshot ==
    /\ account_map \in Snapshots
    /\ account_state = None
    /\ chan = <<>>
    /\ build = "debug"
    /\ last = Called("A", "new", "Ok", None, FALSE)
    /\ NoWire /\ NoLedger

MakeFrom ==
    /\ \E kind \in Kinds, module_address \in {"A", "B"} :
          LET r == make_from(kind, module_address, account_map) IN
          last' = Called("A", "make_from", r.outcome,
                         Some([kind |-> kind, module_address |-> module_address,
                               found |-> r.value]), FALSE)
    /\ UNCHANGED <<chan, build, wire, channels, account_map, account_state>>

FromBlob ==
    /\ \E blob \in {Blob(account_map), UndecodableBlob}, module_registry \in Registries :
          LET r == from_blob(blob, module_registry) IN
          /\ account_state' = r.value
          /\ last' = Called("A", "from_blob", r.outcome, Some(module_registry), FALSE)
    /\ UNCHANGED <<chan, build, wire, channels, account_map>>

FindResource ==
    /\ account_state # None
    /\ \E filter \in Filters, order \in IterationOrders(DOMAIN account_state[1].resources) :
          LET found == find_resource(account_state[1].resources, order,
                                     filter) IN
          last' = Called("A", "find_resource", "Ok",
                         Some([filter |-> filter, order |-> order, found |-> found]), FALSE)
    /\ UNCHANGED <<chan, build, wire, channels, account_map, account_state>>

NextSnapshot ==
    \/ MakeFrom
    \/ FromBlob
    \/ FindResource

SpecSnapshot == InitSnapshot /\ [][NextSnapshot]_vars

----------------------------------------------------------------------------
(* Script templates (client/src/usds_commands.rs): a template is a string, *)
(* here a sequence of characters, with ${name} placeholders for the        *)
(* addresses of the registered modules.                                    *)

MaxPieces == 3

\* the characters of a module name and of an account address in hexadecimal
Chars(name) ==
    IF name = "etoken" THEN <<"e", "t", "o", "k", "e", "n">>
    ELSE <<"c", "h", "a", "n", "n", "e", "l">>
to_string(account) ==
    IF account = "A" THEN <<"0", "a">>
    ELSE IF account = "B" THEN <<"0", "b">>
    ELSE <<"0", "c">>

\* format!("${{{}}}", module.name)
Placeholder(name) == <<"$", "{">> \o Chars(name) \o <<"}">>

\* str::replace: every non-overlapping occurrence of from, left to right
RECURSIVE replace(_, _, _)
replace(str, from, to) ==
    IF Len(str) < Len(from) THEN str
    ELSE IF SubSeq(str, 1, Len(from)) = from
    THEN to \o replace(SubSeq(str, Len(from) + 1, Len(str)), from, to)
    ELSE <<Head(str)>> \o replace(Tail(str), from, to)

\* the loop of parse_script: each round replaces in the template it was given
RECURSIVE parse_script_loop(_, _, _)
parse_script_loop(script_template, module_registry, script) ==
    IF module_registry = <<>> THEN script
    ELSE LET module == Head(module_registry)
             address_str == <<"0", "x">> \o to_string(module.account) IN
         parse_script_loop(script_template, Tail(module_registry),
                           replace(script_template, Placeholder(module.name), address_str))

parse_script(script_template, module_registry) ==
    parse_script_loop(script_template, module_registry, script_template)

\* the pieces templates are made of: plain text, the two placeholders, an opening
\* without a name
TemplatePieces ==
    {<<"x">>, <<"$", "{">>, Placeholder("etoken"), Placeholder("channel")}

RECURSIVE TemplatesOf(_)
TemplatesOf(n) ==
    IF n = 0 THEN {<<>>}
    ELSE LET shorter == TemplatesOf(n - 1) IN
         shorter \cup {t \o piece : t \in shorter, piece \in TemplatePieces}

Templates == TemplatesOf(MaxPieces)

\* the registries: no module, one module, or both in either order, under the names
\* the client registers them with
ScriptRegistries ==
    LET etoken == ModuleRegistryEntry("etoken", "A")
        channel == ModuleRegistryEntry("channel", "B") IN
    {<<>>, <<etoken>>, <<channel>>, <<etoken, channel>>, <<channel, etoken>>}

InitScript ==
    /\ chan = <<>>
    /\ build \in Builds
    /\ last = Called("A", "new", "Ok", None, FALSE)
    /\ NoWire /\ NoLedger /\ NoSnapshot

ParseScript ==
    /\ \E script_template \in Templates, module_registry \in ScriptRegistries :
          last' = Called("A", "parse_script", "Ok",
                         Some([script_template |-> script_template,
                               module_registry |-> module_registry,
                               script |-> parse_script(script_template, module_registry)]),
                         FALSE)
    /\ UNCHANGED <<chan, build, wire, channels, account_map, account_state>>

SpecScript == InitScript /\ [][ParseScript]_vars

----------------------------------------------------------------------------
(* Properties.                                                             *)

ProtocolOps == {"transfer", "conform", "process_transfer_conform"}

BothOpen(c) == c.self_status.tag = "Open" /\ c.other_status.tag = "Open"

\* requests the properties try on a channel: versions beyond current + 1, amounts
\* and balances beyond what the channel holds
ProbeRequests == {TransferRequest("B", v, a, sb, ob, NoSig) :
                    v \in 0..(MaxVersion + 2), a \in 0..(MaxBal + 1),
                    sb \in 0..(MaxBal + 2), ob \in 0..(MaxBal + 2)}
ProbeAmounts == 0..(MaxBal + MaxCoin + 1)

\* the scenario of the specification: own coin 100, counterparty coin 50
ScenarioChannel(a, self_coin, other_coin) ==
    new(a, Peer(a), ChannelResource(Peer(a), self_coin, FALSE),
        Some(ChannelResource(a, other_coin, FALSE)), None, None)

\* C1: the channel is ready exactly when both statuses are Open, and on a channel
\* with a side that is not Open (Unestablished or Closed) transfer, conform and
\* process_transfer_conform each end with the error "channel is not ready".
C1_ReadinessGate ==
    \A a \in DOMAIN chan :
        LET c == chan[a] IN
        /\ is_ready(c) <=> BothOpen(c)
        /\ ~BothOpen(c) =>
              /\ \A amount \in ProbeAmounts :
                    transfer(c, amount, build).outcome = "channel is not ready"
              /\ \A request \in Requests :
                    conform(c, request, build).outcome = "channel is not ready"
              /\ \A cf \in Conforms :
                    process_transfer_conform(c, cf).outcome = "channel is not ready"
        /\ (last.account = a /\ last.op \in ProtocolOps /\ ~BothOpen(c)) =>
              last.outcome = "channel is not ready"

\* C1 witness: a conform was refused on a channel whose counterparty side is Closed
C1_Witness ==
    /\ last.op = "conform"
    /\ last.outcome = "channel is not ready"
    /\ chan[last.account].self_status.tag = "Open"
    /\ chan[last.account].other_status.tag = "Closed"

C4_VersionCheckWithoutData ==
    \A a \in DOMAIN chan :
        LET c == chan[a] IN
        (is_ready(c) /\ c.data = None) =>
            \A request \in ProbeRequests :
                request.version # 1 =>
                    LET r == conform(c, request, build) IN
                    r.outcome = "check version fail" /\ r.chan = c

\* C4 witness: conform refused a request for its version on a channel without local data
C4_Witness ==
    /\ last.op = "conform" /\ last.outcome = "check version fail" /\ ~last.had_data
    /\ is_ready(chan[last.account]) /\ chan[last.account].data = None

\* C5: whenever transfer, conform or process_transfer_conform returns an error, the
\* channel (local data and both statuses) is what it was before the call.
C5_NoPartialEffect ==
    \A a \in DOMAIN chan :
        LET c == chan[a] IN
        /\ \A amount \in ProbeAmounts :
              LET r == transfer(c, amount, build) IN IsErr(r) => r.chan = c
        /\ \A request \in Requests :
              LET r == conform(c, request, build) IN IsErr(r) => r.chan = c
        /\ is_ready(c) =>
              \A request \in ProbeRequests :
                  LET r == conform(c, request, build) IN IsErr(r) => r.chan = c
        /\ \A cf \in Conforms :
              LET r == process_transfer_conform(c, cf) IN IsErr(r) => r.chan = c
        /\ (last.account = a /\ last.op \in ProtocolOps /\ last.outcome # "Ok") =>
              last.had_data = (c.data # None)

\* C5 witness: process_transfer_conform failed on a channel that holds no local data
C5_Witness ==
    /\ last.op = "process_transfer_conform" /\ last.outcome = "channel is not ready"
    /\ chan[last.account].data = None

PeerChannel(c) ==
    new(c.other_address, c.self_address, c.other_status.resource,
        Some(c.self_status.resource), None, None)

CurrentTotal(c) ==
    IF c.data # None THEN total_balance(c.data[1])
    ELSE c.self_status.resource.coin + c.other_status.resource.coin

\* C8 (as claimed): every request transfer returns has self_balance + other_balance
\* equal to the channel's current total.
C8_TransferConservesTotal ==
    (last.op = "transfer" /\ last.outcome = "Ok") =>
        total_balance(last.value[1]) = CurrentTotal(chan[last.account])

\* C9 (as claimed): every change of the local data's version strictly increases it, a
\* step that changes the local data never leaves the version equal, and local data
\* first created by a protocol step has version 1.
C9_VersionStrictlyIncreases ==
    [][\A a \in DOMAIN chan :
          /\ (chan[a].data # None /\ chan'[a].data # chan[a].data) =>
                /\ chan'[a].data # None
                /\ chan'[a].data[1].version > chan[a].data[1].version
          /\ (chan[a].data = None /\ chan'[a].data # None) =>
                chan'[a].data[1].version = 1]_vars

\* C10 (as claimed): on a channel with local data, each successful conform and each
\* successful process_transfer_conform leaves self_balance + other_balance of the
\* local data equal to its value before the step.
C10_StepsConserveTotal ==
    [][\A a \in DOMAIN chan :
          (/\ chan[a].data # None
           /\ last'.account = a
           /\ last'.op \in {"conform", "process_transfer_conform"}
           /\ last'.outcome = "Ok") =>
                /\ chan'[a].data # None
                /\ total_balance(chan'[a].data[1]) = total_balance(chan[a].data[1])]_vars

\* C11 (as claimed): on a ready channel whose local data has version v and
\* self_balance s, transfer(amount) returns an error when amount > s and otherwise
\* returns a request with sender = self_address, the given amount and version v + 1.
C11_TransferWithLocalData ==
    (last.op = "transfer" /\ last.had_data /\ is_ready(chan[last.account])) =>
        LET c == chan[last.account] IN
        /\ last.outcome \in {"Ok", "balance not enough."}
        /\ last.outcome = "Ok" =>
              /\ last.value[1].sender = c.self_address
              /\ last.value[1].version = c.data[1].version + 1
              /\ last.value[1].amount <= c.data[1].self_balance
        /\ \A amount \in ProbeAmounts :
              LET r == transfer(c, amount, build) IN
              IF amount > c.data[1].self_balance
              THEN IsErr(r)
              ELSE /\ r.outcome = "Ok"
                   /\ r.value.sender = c.self_address
                   /\ r.value.amount = amount
                   /\ r.value.version = c.data[1].version + 1

\* C12 (as claimed): transfer never faults on arithmetic: every call returns a
\* request or an error, and no balance of a returned request comes from a u64
\* subtraction or addition that left the range 0..u64::MAX.
C12_TransferArithmetic ==
    last.op = "transfer" =>
        /\ last.outcome # "panic"
        /\ last.outcome = "Ok" =>
              LET c == chan[last.account]
                  amount == last.value[1].amount IN
              IF c.data # None
              THEN /\ ~Overflows(c.data[1].self_balance - amount)
                   /\ ~Overflows(c.data[1].other_balance - amount)
                   /\ last.value[1].other_balance = c.data[1].other_balance - amount
              ELSE /\ ~Overflows(c.self_status.resource.coin - amount)
                   /\ ~Overflows(c.other_status.resource.coin + amount)
                   /\ last.value[1].other_balance = c.other_status.resource.coin + amount

C14_ConformStateUpdate ==
    /\ \A a \in DOMAIN chan :
          LET c == chan[a] IN
          (is_ready(c) /\ c.data # None) =>
              LET Stored(request) ==
                      LET r == conform(c, request, build) IN
                      r.outcome = "Ok" =>
                          /\ r.chan.data = Some([version |-> request.version,
                                                 self_balance |-> request.other_balance,
                                                 other_balance |-> request.self_balance,
                                                 self_signature |-> NoSig,
                                                 other_signature |-> request.signature])
                          /\ r.chan.self_status = c.self_status
                          /\ r.chan.other_status = c.other_status
                          /\ r.chan.self_address = c.self_address
                          /\ r.chan.other_address = c.other_address
              IN  /\ \A request \in ProbeRequests : Stored(request)
                  /\ \A request \in Requests : Stored(request)
    /\ (last.op = "conform" /\ last.outcome = "Ok" /\ last.had_data) =>
          LET data == chan[last.account].data[1]
              request == last.value[1].request IN
          /\ data.version = request.version
          /\ data.self_balance = request.other_balance
          /\ data.other_balance = request.self_balance
          /\ data.other_signature = request.signature
          /\ data.self_signature = NoSig
          /\ is_ready(chan[last.account])

\* C14 witness: conform accepted, on a channel with local data, a signed request whose
\* two balances differ, and the local data holds them swapped
C14_Witness ==
    /\ last.op = "conform" /\ last.outcome = "Ok" /\ last.had_data
    /\ LET data == chan[last.account].data[1]
           request == last.value[1].request IN
          /\ request.signature # NoSig
          /\ request.self_balance # request.other_balance
          /\ data.self_balance = request.other_balance
          /\ data.other_signature = request.signature

\* conforms the properties try on a channel: from the counterparty or a third
\* account, echoing requests that need not match anything the channel holds
ProbeConforms ==
    {TransferConform(s, g[1], TransferRequest("A", v, a, sb, ob, g[2])) :
        s \in {"B", "C"}, g \in ConformSignatures, v \in {0, MaxVersion + 2},
        a \in {0, MaxBal + 1}, sb \in {0, 2 * MaxBal + 1}, ob \in {0, MaxBal}}

\* C15: on a ready channel process_transfer_conform succeeds for every conform,
\* whatever the local state, and leaves local data (created if absent) with the
\* version and the two balances of conform.request, self_signature =
\* conform.request.signature and other_signature = conform.signature.
C15_ProcessStoresEchoedRequest ==
    /\ \A a \in DOMAIN chan :
          LET c == chan[a] IN
          is_ready(c) =>
              LET Stored(cf) ==
                      LET r == process_transfer_conform(c, cf) IN
                      /\ r.outcome = "Ok"
                      /\ r.chan = [c EXCEPT !.data =
                                      Some([version |-> cf.request.version,
                                            self_balance |-> cf.request.self_balance,
                                            other_balance |-> cf.request.other_balance,
                                            self_signature |-> cf.request.signature,
                                            other_signature |-> cf.signature])]
              IN  /\ \A cf \in ProbeConforms : Stored(cf)
                  /\ \A cf \in Conforms : Stored(cf)
    /\ (last.op = "process_transfer_conform" /\ is_ready(chan[last.account])) =>
          /\ last.outcome = "Ok"
          /\ chan[last.account].data # None

\* C15 witness: process_transfer_conform succeeded on a channel that had local data
\* and left it at version 0 with the two signatures of the conform, a state no
\* check against the local data would let through
C15_Witness ==
    /\ last.op = "process_transfer_conform" /\ last.outcome = "Ok" /\ last.had_data
    /\ LET data == chan[last.account].data[1] IN
          /\ data.version = 0
          /\ data.self_signature = <<8>>
          /\ data.other_signature = <<7>>

\* C16: update_with_resource sets self_status when the resource's counterparty field
\* is the channel's other_address and other_status when it is self_address; the
\* status set is Closed, with the resource and the optional proof, iff the resource's
\* closed flag is set, and Open, with the resource and no proof, otherwise; the call
\* always returns.
C16_UpdateClassification ==
    /\ \A a \in DOMAIN chan, channel_resource \in ChannelResources,
          proof_resource \in OptProofs :
          LET c == chan[a]
              updated == update_with_resource(c, channel_resource, proof_resource)
              status == IF channel_resource.other = c.other_address
                        THEN updated.self_status ELSE updated.other_status IN
          channel_resource.other \in {c.other_address, c.self_address} =>
              /\ status.tag = "Closed" <=> channel_resource.closed
              /\ status.tag = "Open" <=> ~channel_resource.closed
              /\ status.resource = channel_resource
              /\ status.tag = "Closed" => status.proof = proof_resource
              /\ status.tag = "Open" => DOMAIN status = {"tag", "resource"}
    /\ last.op = "update_with_resource" => last.outcome = "Ok"

\* C16 witness: after an update_with_resource call the own side is Closed with a proof
\* on a channel without local data (a channel is constructed with local data whenever
\* its own side carries a proof, so this status was set by update_with_resource)
C16_Witness ==
    /\ last.op = "update_with_resource"
    /\ LET c == chan[last.account] IN
          /\ c.self_status.tag = "Closed"
          /\ c.self_status.proof # None
          /\ c.data = None
          /\ c.other_status.tag = "Open"

\* C17 (as claimed): once a side's status is Closed, no step (update_with_resource,
\* transfer, conform, process_transfer_conform) sets that side's status to Open.
C17_ClosedStaysClosed ==
    [][\A a \in DOMAIN chan :
          /\ chan[a].self_status.tag = "Closed" => chan'[a].self_status.tag # "Open"
          /\ chan[a].other_status.tag = "Closed" => chan'[a].other_status.tag # "Open"]_vars

\* C18: once a side's status is Open or Closed, no step (update_with_resource,
\* transfer, conform, process_transfer_conform) sets it to the None status.
C18_NeverUnestablishedAgain ==
    [][\A a \in DOMAIN chan :
          /\ chan[a].self_status.tag # "None" => chan'[a].self_status.tag # "None"
          /\ chan[a].other_status.tag # "None" => chan'[a].other_status.tag # "None"]_vars

\* C18 witness: update_with_resource closed the counterparty side of a channel whose
\* local data has version 0: such data is written by process_transfer_conform only,
\* which ran on a ready channel, so both sides were established before the update
C18_Witness ==
    /\ last.op = "update_with_resource"
    /\ LET c == chan[last.account] IN
          /\ c.data # None
          /\ c.data[1].version = 0
          /\ c.other_status.tag = "Closed"
          /\ c.self_status.tag = "Open"

\* C19: an update_with_resource call changes at most one side's status and changes
\* neither the local data nor self_address nor other_address; a resource whose
\* counterparty field is neither self_address nor other_address leaves the whole
\* channel unchanged.
C19_UpdateFrame ==
    /\ \A a \in DOMAIN chan, channel_resource \in ChannelResources,
          proof_resource \in OptProofs :
          LET c == chan[a]
              updated == update_with_resource(c, channel_resource, proof_resource) IN
          /\ updated.data = c.data
          /\ updated.self_address = c.self_address
          /\ updated.other_address = c.other_address
          /\ updated.self_status = c.self_status \/ updated.other_status = c.other_status
          /\ channel_resource.other \notin {c.self_address, c.other_address} => updated = c
    /\ last.op = "update_with_resource" =>
          /\ last.had_data = (chan[last.account].data # None)
          /\ chan[last.account].self_address = last.account
          /\ chan[last.account].other_address = Peer(last.account)

\* C19 witness: update_with_resource closed the own side of a channel that holds
\* local data of version 0 (written by process_transfer_conform while both sides
\* were Open), and the local data and the counterparty side are still there
C19_Witness ==
    /\ last.op = "update_with_resource" /\ last.had_data
    /\ LET c == chan[last.account] IN
          /\ c.data # None
          /\ c.data[1].version = 0
          /\ c.self_status.tag = "Closed"
          /\ c.other_status.tag = "Open"

\* C20 (as claimed): on a ready channel with no local data, the first successful
\* transfer, conform and process_transfer_conform each leave local data present.
C20_LazyPopulationByEveryStep ==
    (last.op \in ProtocolOps /\ last.outcome = "Ok" /\ ~last.had_data) =>
        chan[last.account].data # None

\* C20 (amended): on a ready channel with no local data, the first successful conform
\* and the first successful process_transfer_conform each leave local data present,
\* while a transfer, successful or not, leaves the local data absent.
C20_LazyPopulation ==
    /\ \A a \in DOMAIN chan :
          LET c == chan[a] IN
          (is_ready(c) /\ c.data = None) =>
              /\ \A request \in Requests :
                    LET r == conform(c, request, build) IN
                    r.outcome = "Ok" => r.chan.data # None
              /\ \A request \in ProbeRequests :
                    LET r == conform(c, request, build) IN
                    r.outcome = "Ok" => r.chan.data # None
              /\ \A cf \in ProbeConforms :
                    LET r == process_transfer_conform(c, cf) IN
                    r.outcome = "Ok" /\ r.chan.data # None
              /\ \A amount \in ProbeAmounts :
                    transfer(c, amount, build).chan.data = None
    /\ (last.op \in {"conform", "process_transfer_conform"} /\ last.outcome = "Ok") =>
          chan[last.account].data # None
    /\ (last.op = "transfer" /\ ~last.had_data) => chan[last.account].data = None

\* C20 witness: process_transfer_conform succeeded on a channel that had no local
\* data, and the channel now holds the local data it created
C20_Witness ==
    /\ last.op = "process_transfer_conform" /\ last.outcome = "Ok" /\ ~last.had_data
    /\ chan[last.account].data # None
    /\ chan[last.account].data[1].self_balance > 0

\* C21 (as claimed): conform never faults on arithmetic: every call returns a
\* TransferConform or an error, and no request is accepted whose balances sum to
\* more than u64::MAX (a total that only matches after wrapping around).
C21_ConformArithmetic ==
    last.op = "conform" =>
        /\ last.outcome # "panic"
        /\ last.outcome = "Ok" =>
              LET request == last.value[1].request
                  data == chan[last.account].data[1] IN
              /\ ~Overflows(request.self_balance + request.other_balance)
              /\ ~Overflows(data.self_balance + data.other_balance)

\* C22: every TransferConform conform returns has sender = the channel's own
\* self_address, an empty signature, and a request field equal, field for field, to
\* the request passed in.
C22_ConformEchoesRequest ==
    /\ \A a \in DOMAIN chan :
          LET c == chan[a] IN
          is_ready(c) =>
              LET Echoed(request) ==
                      LET r == conform(c, request, build) IN
                      r.outcome = "Ok" =>
                          /\ r.value.sender = c.self_address
                          /\ r.value.signature = NoSig
                          /\ r.value.request = request
              IN  /\ \A request \in ProbeRequests : Echoed(request)
                  /\ \A request \in Requests : Echoed(request)
    /\ (last.op = "conform" /\ last.outcome = "Ok") =>
          LET c == chan[last.account]
              reply == last.value[1] IN
          /\ reply.sender = c.self_address
          /\ reply.signature = NoSig
          /\ reply.request.version = c.data[1].version
          /\ reply.request.other_balance = c.data[1].self_balance
          /\ reply.request.self_balance = c.data[1].other_balance
          /\ reply.request.signature = c.data[1].other_signature

\* C22 witness: conform returned a reply that echoes a signed request claiming to
\* come from a third account, under the channel's own address
C22_Witness ==
    /\ last.op = "conform" /\ last.outcome = "Ok"
    /\ LET reply == last.value[1] IN
          /\ reply.sender = "A"
          /\ reply.request.sender = "C"
          /\ reply.request.signature = <<7>>
          /\ reply.request.amount = MaxBal

----------------------------------------------------------------------------
\* C23: the ledger is keyed by counterparty: every key maps to the one channel
\* whose other_address is that key; right after append_channel(channel),
\* get_channel(channel.other_address) is that channel (whatever was filed under the
\* key before); right after delete_channel(k), get_channel(k) is nothing; a step
\* changes what get_channel returns for no key but the one it appends, deletes or
\* runs a command on; and get_channel reports what the ledger holds.
C23_LedgerKeyed == \A k \in DOMAIN channels : channels[k].other_address = k

C23_LastAppendedWins ==
    /\ last.op = "append_channel" =>
          get_channel(channels, last.value[1].other_address) = last.value
    /\ last.op = "delete_channel" => get_channel(channels, last.value[1]) = None
    /\ last.op = "get_channel" =>
          last.value[1].channel = IF last.value[1].other \in DOMAIN channels
                                  THEN Some(channels[last.value[1].other]) ELSE None

\* the key a step appends under, deletes or runs a command on, if any
C23_Touched(l) ==
    CASE l.op = "append_channel" -> {l.value[1].other_address}
      [] l.op = "delete_channel" -> {l.value[1]}
      [] l.op = "conform" /\ l.value # None -> {l.value[1].request.sender}
      [] OTHER -> {}

C23_OtherKeysKept ==
    \A k \in Counterparties \ C23_Touched(last') :
        get_channel(channels', k) = get_channel(channels, k)

C23_LedgerByCounterparty ==
    /\ [](C23_LedgerKeyed /\ C23_LastAppendedWins)
    /\ [][C23_OtherKeysKept]_vars

\* a channel with B has just replaced another channel with B, while a channel with
\* C is on file
C23_Witness ==
    /\ last.op = "append_channel"
    /\ last.value[1].other_address = "B"
    /\ last.value[1].self_status.resource.coin = MaxCoin
    /\ DOMAIN channels = {"B", "C"}
    /\ channels["B"] = last.value[1]

----------------------------------------------------------------------------
\* the snapshot paths that hold the resources of a registered module
OwnPaths(module) ==
    {p \in DOMAIN account_map :
        /\ p[1] = module.account
        /\ p[2] = IF module.name = "etoken" THEN "EToken" ELSE "Channel"}

\* C24: decoding an account state is independent per module: from_blob of any
\* snapshot with any module registry succeeds, its resources have an entry for
\* exactly the registered module names, and the entry of a module is what decoding
\* the module alone, from a snapshot holding nothing but its own resources, gives:
\* what is missing or undecodable for one module changes no entry of another; a
\* resource that is missing or undecodable is absent from its own entry.
C24_PerModuleDecoding ==
    /\ \A module_registry \in Registries :
          LET whole == from_blob(Blob(account_map), module_registry) IN
          /\ whole.outcome = "Ok"
          /\ DOMAIN whole.value[1].resources =
                 {module_registry[i].name : i \in DOMAIN module_registry}
          /\ \A i \in DOMAIN module_registry :
                LET module == module_registry[i]
                    own == [p \in OwnPaths(module) |-> account_map[p]]
                    alone == from_blob(Blob(own), <<module>>) IN
                /\ whole.value[1].resources[module.name] =
                       alone.value[1].resources[module.name]
                /\ OwnPaths(module) = {} =>
                       \A r \in Range(whole.value[1].resources[module.name]) : r.value = None
    /\ last.op = "from_blob" /\ last.outcome = "Ok" =>
          /\ account_state # None
          /\ DOMAIN account_state[1].resources =
                 {last.value[1][i].name : i \in DOMAIN last.value[1]}

\* a snapshot with no token resource, a channel resource and a proof cut short has
\* been decoded for the token module and the channel module: the token and the
\* proof are absent, the channel resource is there
C24_Witness ==
    /\ last.op = "from_blob"
    /\ last.outcome = "Ok"
    /\ last.value[1] = <<ModuleRegistryEntry("etoken", "A"), ModuleRegistryEntry("channel", "B")>>
    /\ KindPath("EToken") \notin DOMAIN account_map
    /\ KindPath("Proof") \in DOMAIN account_map
    /\ account_state[1].resources["etoken"] = <<Resource("EToken", None)>>
    /\ account_state[1].resources["channel"][1].value # None
    /\ account_state[1].resources["channel"][3].value = None

----------------------------------------------------------------------------
\* the path of each kind of resource: the module name and the struct name
LookupPath(kind, module_address) ==
    CASE kind = "EToken" -> resource_path(module_address, "EToken", "T")
      [] kind = "Channel" -> resource_path(module_address, "Channel", "T")
      [] kind = "ClosedChannel" -> resource_path(module_address, "Channel", "ClosedChannel")
      [] kind = "Proof" -> resource_path(module_address, "Channel", "Proof")

\* C25: make_from of each kind of resource returns the not-found error, and does
\* not panic, exactly when the snapshot has no entry under the path of (module
\* address, module name, struct name); otherwise it returns what decoding the
\* bytes under that path gives; the snapshot is left as it is.
C25_LookupResult ==
    /\ \A kind \in Kinds, module_address \in Addresses :
          LET ap == LookupPath(kind, module_address)
              r == make_from(kind, module_address, account_map) IN
          /\ r.outcome \in {"Ok", "No data", "DecodeError"}
          /\ r.outcome = "No data" <=> ap \notin DOMAIN account_map
          /\ ap \in DOMAIN account_map =>
                r = SimpleDeserializer_deserialize(kind, account_map[ap])
    /\ last.op = "make_from" =>
          (last.outcome = "No data" <=>
              LookupPath(last.value[1].kind, last.value[1].module_address)
                  \notin DOMAIN account_map)

C25_SnapshotKept == last'.op = "make_from" => account_map' = account_map

C25_LookupOutcome == []C25_LookupResult /\ [][C25_SnapshotKept]_vars

\* the proof has just been looked up and not found in a snapshot that holds the
\* channel resource of the same module
C25_Witness ==
    /\ last.op = "make_from"
    /\ last.outcome = "No data"
    /\ last.value[1].kind = "Proof"
    /\ last.value[1].module_address = "B"
    /\ KindPath("Channel") \in DOMAIN account_map

----------------------------------------------------------------------------
\* C26: find_resource returns one of the decoded resources that satisfies the
\* predicate whenever one does, nothing exactly when none does, and of several
\* matches the first in scan order.
C26_FindFirstMatch ==
    /\ account_state # None =>
          \A filter \in Filters,
             order \in IterationOrders(DOMAIN account_state[1].resources) :
             LET items == Scan(account_state[1].resources, order)
                 found == find_resource(account_state[1].resources, order,
                                        filter) IN
             /\ found = None <=> \A i \in DOMAIN items : ~Matches(filter, items[i])
             /\ found # None =>
                   /\ Matches(filter, found[1])
                   /\ \E m \in DOMAIN account_state[1].resources :
                         found[1] \in Range(account_state[1].resources[m])
                   /\ \E i \in DOMAIN items :
                         /\ items[i] = found[1]
                         /\ \A j \in 1..(i - 1) : ~Matches(filter, items[j])
    /\ last.op = "find_resource" =>
          last.value[1].found =
              find_resource(account_state[1].resources, last.value[1].order,
                            last.value[1].filter)

\* the channel module is scanned before the token module, the channel resource,
\* the proof and the token are all there, and the first resource that is there
\* has been asked for: the channel resource is returned
C26_Witness ==
    /\ last.op = "find_resource"
    /\ last.value[1].filter = "present"
    /\ last.value[1].order = <<"channel", "etoken">>
    /\ account_state[1].resources["etoken"][1].value # None
    /\ account_state[1].resources["channel"][3].value # None
    /\ last.value[1].found # None
    /\ last.value[1].found[1].kind = "Channel"

----------------------------------------------------------------------------
\* numbers at the byte boundaries of the encoding
RoundTripNumbers == {0, 1, 255, 256, 65535, 65536, U64_MAX}

\* values of each kind with fields that differ from one another
RoundTripValues(kind) ==
    CASE kind = "EToken" -> {[value |-> x] : x \in RoundTripNumbers}
      [] kind = "Channel" ->
             {[other |-> o, coin |-> c] : o \in Addresses, c \in RoundTripNumbers}
      [] kind = "ClosedChannel" ->
             {[other |-> o, coin |-> c, height |-> c + 1] :
                 o \in Addresses, c \in RoundTripNumbers \ {U64_MAX}}
      [] kind = "Proof" ->
             {[version |-> x + 2, self_balance |-> x + 1, other_balance |-> x,
               self_signature |-> g, other_signature |-> h] :
                 x \in RoundTripNumbers \ {U64_MAX}, g \in Sigs \ {NoSig}, h \in Sigs}

\* C27: deserializing the bytes serialize produces for a value of ETokenResource,
\* ChannelResource, ClosedChannelResource or ProofResource gives that value back:
\* for the values the snapshot holds, as make_from reads them, and, once a value
\* of a kind has been read, for values of that kind with fields at the byte
\* boundaries.
C27_RoundTrip ==
    /\ \A kind \in Kinds : \A v \in ResourceValues(kind) :
          LET ap == KindPath(kind) IN
          (ap \in DOMAIN account_map /\ account_map[ap] = serialize(kind, v)) =>
              make_from(kind, ModuleAccount(kind), account_map) = Found(v)
    /\ last.op = "make_from" /\ last.outcome = "Ok" =>
          serialize(last.value[1].kind, last.value[1].found[1]) =
              account_map[LookupPath(last.value[1].kind, last.value[1].module_address)]
    /\ last.op = "make_from" /\ last.outcome = "Ok" =>
          \A v \in RoundTripValues(last.value[1].kind) :
              SimpleDeserializer_deserialize(last.value[1].kind,
                                             serialize(last.value[1].kind, v)) = Found(v)

\* the proof stored in the snapshot has just been read back
C27_Witness ==
    /\ last.op = "make_from"
    /\ last.outcome = "Ok"
    /\ last.value[1].kind = "Proof"
    /\ last.value[1].found[1] \in ResourceValues("Proof")
    /\ last.value[1].found[1].self_signature = <<7>>
    /\ last.value[1].found[1].other_balance # last.value[1].found[1].self_balance

----------------------------------------------------------------------------
\* the letters of a field name as numbers: "_" is 0, "a" is 1, ..., "z" is 26
Letters(field) ==
    CASE field = "coin" -> <<3, 15, 9, 14>>
      [] field = "height" -> <<8, 5, 9, 7, 8, 20>>
      [] field = "other" -> <<15, 20, 8, 5, 18>>
      [] field = "other_balance" -> <<15, 20, 8, 5, 18, 0, 2, 1, 12, 1, 14, 3, 5>>
      [] field = "other_signature" -> <<15, 20, 8, 5, 18, 0, 19, 9, 7, 14, 1, 20, 21, 18, 5>>
      [] field = "self_balance" -> <<19, 5, 12, 6, 0, 2, 1, 12, 1, 14, 3, 5>>
      [] field = "self_signature" -> <<19, 5, 12, 6, 0, 19, 9, 7, 14, 1, 20, 21, 18, 5>>
      [] field = "value" -> <<22, 1, 12, 21, 5>>
      [] field = "version" -> <<22, 5, 18, 19, 9, 15, 14>>

\* a comes before b in lexicographic order
RECURSIVE LexLess(_, _)
LexLess(a, b) ==
    IF a = <<>> THEN b # <<>>
    ELSE IF b = <<>> THEN FALSE
    ELSE IF Head(a) # Head(b) THEN Head(a) < Head(b)
    ELSE LexLess(Tail(a), Tail(b))

\* the fields of a struct in ascending lexicographic order of their names
ByName(kind, order) ==
    /\ Len(order) = Len(DeclaredFields(kind))
    /\ Range(order) = Range(DeclaredFields(kind))
    /\ \A i, j \in DOMAIN order : i < j => LexLess(Letters(order[i]), Letters(order[j]))

\* the bytes a value's fields encode to, one field after the other
RECURSIVE Layout(_, _)
Layout(order, v) ==
    IF order = <<>> THEN <<>>
    ELSE encode_field(Head(order), v[Head(order)]) \o Layout(Tail(order), v)

\* the field order the claim lists for each kind
ListedOrder(kind) ==
    CASE kind = "Channel" -> <<"coin", "other">>
      [] kind = "ClosedChannel" -> <<"coin", "height", "other">>
      [] kind = "Proof" -> <<"other_balance", "other_signature", "self_balance",
                             "self_signature", "version">>

\* C28: serialize writes and deserialize reads the fields of ChannelResource,
\* ClosedChannelResource and ProofResource in ascending lexicographic order of their
\* names (coin, other; coin, height, other; other_balance, other_signature,
\* self_balance, self_signature, version), the write order being the read order:
\* the bytes of a value are the encodings of its fields in that order, and a
\* buffer laid out in that order reads back field by field.
C28_FieldOrderByName ==
    \A kind \in {"Channel", "ClosedChannel", "Proof"} :
        /\ ByName(kind, ListedOrder(kind))
        /\ write_order(kind) = ListedOrder(kind)
        /\ read_order(kind) = ListedOrder(kind)
        /\ \A v \in ResourceValues(kind) :
              /\ serialize(kind, v) = Layout(ListedOrder(kind), v)
              /\ LET d == deserialize(kind, Layout(ListedOrder(kind), v)) IN
                 d.ok /\ d.rest = <<>> /\ d.value = v
              /\ (/\ KindPath(kind) \in DOMAIN account_map
                  /\ account_map[KindPath(kind)] = Layout(ListedOrder(kind), v)) =>
                    make_from(kind, ModuleAccount(kind), account_map) = Found(v)

\* the closed channel record stored in the snapshot has just been read: its coin,
\* written first, and its height, written second, are told apart
C28_Witness ==
    /\ last.op = "make_from"
    /\ last.outcome = "Ok"
    /\ last.value[1].kind = "ClosedChannel"
    /\ last.value[1].found[1].coin = MaxCoin
    /\ last.value[1].found[1].height = MaxCoin + 1
    /\ last.value[1].found[1].other = "B"

----------------------------------------------------------------------------
\* the local data of two parties mirror each other
Mirrored(x, y) == x.self_balance = y.other_balance /\ x.other_balance = y.self_balance

\* C29: in every interleaving of the two parties' transfer, conform and
\* process_transfer_conform steps, with the messages delivered in any order,
\* whenever both parties hold local data with the same version their balances are
\* mirrored.
C29_Agreement ==
    (/\ chan["A"].data # None
     /\ chan["B"].data # None
     /\ chan["A"].data[1].version = chan["B"].data[1].version)
        => Mirrored(chan["A"].data[1], chan["B"].data[1])

----------------------------------------------------------------------------
\* the channel the counterparty holds when its local data mirror those of c at the
\* same version
MirroredPeer(c) ==
    [PeerChannel(c) EXCEPT
        !.data = Some(ChannelLocalData(c.data[1].version, c.data[1].other_balance,
                                       c.data[1].self_balance, c.data[1].other_signature,
                                       c.data[1].self_signature))]

\* C30: when both parties hold mirrored local data at the same version, every
\* request a transfer with amount > 0 produces on one side is rejected by the other
\* side's conform with the balance-check error, and a request with amount 0 is
\* accepted.
C30_FollowUpRejected ==
    (last.op = "transfer" /\ last.outcome = "Ok" /\ last.had_data) =>
        LET request == last.value[1]
            r == conform(MirroredPeer(chan[last.account]), request, build) IN
        IF request.amount > 0
        THEN r.outcome = "balance check fail."
        ELSE r.outcome = "Ok"

----------------------------------------------------------------------------
\* C31: from two ready channels with no local data and the same on-chain view, when
\* one party's transfer succeeds, the other party's conform of that request succeeds
\* and the first party's process_transfer_conform of that conform succeeds, with
\* nothing in between, the two parties' local data have the same version and
\* mirrored balances.
C31_CompletedRound ==
    \A a \in DOMAIN chan :
        LET c == chan[a]
            peer == chan[Peer(a)] IN
        (/\ is_ready(c) /\ is_ready(peer)
         /\ c.data = None /\ peer.data = None
         /\ peer = PeerChannel(c)) =>
            \A amount \in ProbeAmounts :
                LET t == transfer(c, amount, build) IN
                t.outcome = "Ok" =>
                    LET r == conform(peer, t.value, build) IN
                    r.outcome = "Ok" =>
                        LET p == process_transfer_conform(t.chan, r.value) IN
                        p.outcome = "Ok" =>
                            /\ p.chan.data # None /\ r.chan.data # None
                            /\ p.chan.data[1].version = r.chan.data[1].version
                            /\ Mirrored(p.chan.data[1], r.chan.data[1])

\* C31 witness: a round of a transfer of A's whole coin has just been completed:
\* A processed the conform of its own first request, nothing is in flight, and both
\* parties hold the data of version 1
C31_Witness ==
    /\ last.op = "process_transfer_conform" /\ last.outcome = "Ok"
    /\ last.account = "A" /\ ~last.had_data
    /\ wire = {}
    /\ chan["A"].self_status.resource.coin > 0
    /\ chan["B"].self_status.resource.coin = 0
    /\ chan["A"].data # None /\ chan["B"].data # None
    /\ chan["A"].data[1] = ChannelLocalData(1, 0, chan["A"].self_status.resource.coin,
                                            NoSig, NoSig)
    /\ chan["B"].data[1] = ChannelLocalData(1, chan["A"].self_status.resource.coin, 0,
                                            NoSig, NoSig)

----------------------------------------------------------------------------
----------------------------------------------------------------------------
\* C33: over any sequence of conform calls on one channel, no two accepted requests
\* carry the same version: a request conform has just accepted is rejected with the
\* version error when it is submitted again, leaving the local data as they are, and
\* no request of the version just accepted is accepted next.
C33_NoReplay ==
    (last.op = "conform" /\ last.outcome = "Ok") =>
        LET c == chan[last.account]
            accepted == last.value[1].request
            again == conform(c, accepted, build) IN
        /\ again.outcome = "check version fail"
        /\ again.chan = c
        /\ \A request \in WideRequests :
              request.version = accepted.version =>
                  conform(c, request, build).outcome # "Ok"

----------------------------------------------------------------------------
\* a transfer call leaves the local data and both statuses as they were
C34_TransferKeepsChannel == last'.op = "transfer" => chan' = chan

\* a transfer call right after a successful one by the same account with the same
\* amount returns the same request
C34_SameRequestAgain ==
    (/\ last.op = "transfer" /\ last.outcome = "Ok"
     /\ last'.op = "transfer" /\ last'.outcome = "Ok"
     /\ last'.account = last.account
     /\ last'.value[1].amount = last.value[1].amount)
        => /\ last'.value = last.value
           /\ last'.value[1].version = last.value[1].version

\* C34: transfer is read-only: a transfer call, successful or not, leaves the
\* channel's local data and both statuses unchanged, so two consecutive transfer
\* calls with the same amount return identical requests carrying the same version.
C34_TransferReadOnly == [][C34_TransferKeepsChannel /\ C34_SameRequestAgain]_vars

\* C34 witness: a transfer of a positive amount has returned a request of version 2
\* and the local data still have version 1
C34_Witness ==
    /\ last.op = "transfer" /\ last.outcome = "Ok" /\ last.had_data
    /\ last.value[1].amount > 0
    /\ last.value[1].version = 2
    /\ chan[last.account].data # None
    /\ chan[last.account].data[1].version = 1

----------------------------------------------------------------------------
\* the request with another claimed sender and another signature
Relabelled(request, sender, signature) ==
    [request EXCEPT !.sender = sender, !.signature = signature]

\* what conform decides and the version and balances it leaves
Verdict(r) ==
    <<r.outcome,
      IF r.chan.data = None THEN None
      ELSE Some(<<r.chan.data[1].version, r.chan.data[1].self_balance,
                  r.chan.data[1].other_balance>>)>>

\* C35: conform ignores the claimed sender and the signature: two requests that
\* differ only in sender and/or signature get the same outcome on the same channel
\* state and leave the same version and balances; a request whose sender is not the
\* channel's other_address is not rejected for that reason.
C35_SenderAndSignatureIgnored ==
    \A a \in DOMAIN chan :
        LET c == chan[a] IN
        is_ready(c) =>
            \A request \in Requests :
                request.sender = c.other_address =>
                    LET r == conform(c, request, build) IN
                    \A sender \in Addresses, signature \in {NoSig, <<7>>} :
                        Verdict(conform(c, Relabelled(request, sender, signature), build))
                            = Verdict(r)

\* C35 witness: conform accepted a signed request that claims to come from C on
\* the channel with B, and stored its balances and its signature
C35_Witness ==
    /\ last.op = "conform" /\ last.outcome = "Ok"
    /\ LET c == chan[last.account]
           request == last.value[1].request IN
          /\ c.other_address = "B"
          /\ request.sender = "C"
          /\ request.signature = <<7>>
          /\ c.data # None
          /\ c.data[1].version = request.version
          /\ c.data[1].self_balance = request.other_balance
          /\ c.data[1].other_balance = request.self_balance
          /\ c.data[1].other_signature = <<7>>

----------------------------------------------------------------------------
\* the proofs a channel is built from here: those of the model and one with two
\* different signatures
ConstructionProofs ==
    OptProofs \cup {Some(ProofResource(MaxVersion + 1, 0, MaxBal, <<7>>, <<8>>))}

\* C36: OffchainChannel::new yields local data exactly when a self proof is given,
\* with the proof's version, balances and signatures; self_status is Closed when the
\* self resource's closed flag is set and Open otherwise; other_status is
\* Unestablished when no counterparty resource is given and otherwise Closed or Open
\* by that resource's flag; the channel is ready exactly when the self resource is
\* not closed and a counterparty resource that is not closed is given.
C36_Construction ==
    last.op = "new" =>
        /\ \A a \in DOMAIN chan :
              /\ chan[a].self_address = a
              /\ is_ready(chan[a]) <=> (chan[a].self_status.tag = "Open"
                                          /\ chan[a].other_status.tag = "Open")
        /\ \A self_channel \in {x \in ChannelResources : x.other = "B"},
              other_channel \in {None} \cup {Some(x) : x \in {y \in ChannelResources :
                                                                 y.other = "A"}},
              self_proof \in ConstructionProofs, other_proof \in ConstructionProofs :
              LET c == new("A", "B", self_channel, other_channel, self_proof, other_proof) IN
              /\ (c.data # None) <=> (self_proof # None)
              /\ self_proof # None =>
                    /\ c.data[1].version = self_proof[1].version
                    /\ c.data[1].self_balance = self_proof[1].self_balance
                    /\ c.data[1].other_balance = self_proof[1].other_balance
                    /\ c.data[1].self_signature = self_proof[1].self_signature
                    /\ c.data[1].other_signature = self_proof[1].other_signature
              /\ (c.self_status.tag = "Closed") <=> self_channel.closed
              /\ (c.self_status.tag = "Open") <=> ~self_channel.closed
              /\ c.self_status.resource = self_channel
              /\ (c.other_status.tag = "None") <=> (other_channel = None)
              /\ other_channel # None =>
                    /\ (c.other_status.tag = "Closed") <=> other_channel[1].closed
                    /\ (c.other_status.tag = "Open") <=> ~other_channel[1].closed
                    /\ c.other_status.resource = other_channel[1]
              /\ is_ready(c) <=> (/\ ~self_channel.closed
                                  /\ other_channel # None
                                  /\ ~other_channel[1].closed)

\* C36 witness: a channel just built from a closed self resource with its proof and
\* no counterparty resource: local data of the proof, Closed, Unestablished, not ready
C36_Witness ==
    /\ last.op = "new"
    /\ chan["A"].data # None
    /\ chan["A"].data[1].self_balance = MaxBal
    /\ chan["A"].self_status.tag = "Closed"
    /\ chan["A"].self_status.proof # None
    /\ chan["A"].other_status.tag = "None"
    /\ ~is_ready(chan["A"])

----------------------------------------------------------------------------
OffchainCommands == {"transfer_command", "conform_command", "process_conform_command"}

\* the ways an off-chain command ends before it reaches the channel operation
StoppedEarly ==
    {"sync_channel_status error", "get account data fail.", "get channel data fail.",
     "get channel offchain data fail."}

\* the positions of the channel operations among the calls a command made
OperationCalls(calls) == {i \in DOMAIN calls : calls[i] \in ProtocolOps}

\* after an off-chain command: the synchronisation was its first call, the one
\* channel operation it made (if any) came after it, on the channel of an account
\* that is known and filed under the counterparty, and none was made when the
\* command stopped early; an operation that succeeded ran on the synchronised
\* channel, which is therefore ready
C37_SyncThenOperation ==
    last.op \in OffchainCommands =>
        LET v == last.value[1]
            ops == OperationCalls(v.calls) IN
        /\ v.calls # <<>> /\ v.calls[1] = "sync_channel_status"
        /\ \A i \in ops : \E j \in 1..(i - 1) : v.calls[j] = "sync_channel_status"
        /\ Cardinality(ops) <= 1
        /\ last.outcome \in StoppedEarly <=> ops = {}
        /\ ops # {} => /\ last.account = "A"
                       /\ v.other \in DOMAIN channels
                       /\ channels[v.other].other_address = v.other
        /\ last.outcome = "Ok" => is_ready(channels[v.other])
        /\ (last.op = "conform_command" /\ last.outcome = "Ok") =>
              /\ v.printed[1].request.sender = v.other
              /\ channels[v.other].data # None
              /\ channels[v.other].data[1].version = v.printed[1].request.version

\* an off-chain command that stops early leaves the ledger as it was, and one that
\* reaches the channel operation leaves the channels of the other counterparties
\* as they were
C37_OnlyTheSendersChannel ==
    last'.op \in OffchainCommands =>
        /\ last'.outcome \in StoppedEarly => channels' = channels
        /\ \A o \in DOMAIN channels :
              o # last'.value[1].other =>
                  o \in DOMAIN channels' /\ channels'[o] = channels[o]

\* C37: the off-chain transfer, conform and process_conform commands each call
\* sync_channel_status for the (own, counterparty) pair before the channel
\* operation, and make no channel operation and change no local data when the
\* synchronisation fails, the account is unknown or no channel is filed for the
\* counterparty; the counterparty is request.sender (conform) or conform.sender
\* (process_conform).
C37_SyncPrecedesOffchainStep ==
    []C37_SyncThenOperation /\ [][C37_OnlyTheSendersChannel]_vars

\* C37 witness: a conform command has synchronised, found the channel with C, the
\* sender of its request, and conform has stored the first local data there, while
\* a channel with B is filed too
C37_Witness ==
    /\ last.op = "conform_command" /\ last.outcome = "Ok" /\ ~last.had_data
    /\ last.value[1].calls = <<"sync_channel_status", "get_account_data", "get_channel",
                               "conform">>
    /\ last.value[1].other = "C"
    /\ last.value[1].printed[1].request.sender = "C"
    /\ "B" \in DOMAIN channels /\ "C" \in DOMAIN channels
    /\ channels["C"].data # None
    /\ channels["C"].data[1].other_signature = <<7>>

----------------------------------------------------------------------------
\* a close command runs a script exactly when it finds the account and the
\* channel; the synchronisation is then its last call, after the script
C38_ScriptThenSync ==
    last.op = "close_command" =>
        LET v == last.value[1] IN
        /\ last.outcome \in {"Ok", "get account data fail.", "get channel with address fail."}
        /\ (v.script # None) <=> (last.outcome = "Ok")
        /\ last.outcome = "Ok" =>
              v.calls = <<"get_account_data", "get_channel", "execute_script",
                          "sync_channel_status">>
        /\ last.outcome # "Ok" =>
              \A i \in DOMAIN v.calls :
                  v.calls[i] \notin {"execute_script", "sync_channel_status"}
        /\ last.outcome = "get account data fail." <=> last.account # "A"

\* the script a close command runs is chosen by the local data the channel held
\* when the command began, and carries them
C38_ScriptOfLocalData ==
    last'.op = "close_command" =>
        LET v == last'.value[1] IN
        /\ (last'.account = "A" /\ v.other \in DOMAIN channels) <=> (v.script # None)
        /\ v.script # None =>
              LET channel == channels[v.other] IN
              /\ (channel.data # None) <=>
                     (v.script[1].template = "CHANNEL_CLOSE_WITH_PROOF_TEMPLATE")
              /\ (channel.data = None) <=>
                     (v.script[1].template = "CHANNEL_CLOSE_TEMPLATE")
              /\ channel.data # None =>
                     v.script[1].args =
                         <<v.other, channel.data[1].version, channel.data[1].self_balance,
                           channel.data[1].other_balance, channel.data[1].self_signature,
                           channel.data[1].other_signature>>
              /\ channel.data = None => v.script[1].args = <<v.other>>
        /\ v.script = None => channels' = channels

\* C38: the close command runs the close-with-proof script with the local data's
\* version, self_balance, other_balance, self_signature and other_signature exactly
\* when the channel has local data, the plain close script exactly when it has
\* none, neither when the account or the channel is missing, and synchronises the
\* channel status afterwards.
C38_CloseSubmitsLocalData ==
    []C38_ScriptThenSync /\ [][C38_ScriptOfLocalData]_vars

\* C38 witness: a close command on the channel with B, which held the local data a
\* processed conform left (version MaxVersion + 1, signed by the proposer), ran the
\* close-with-proof script with them, and the synchronisation found the channel closed
C38_Witness ==
    /\ last.op = "close_command" /\ last.outcome = "Ok" /\ last.had_data
    /\ last.value[1].other = "B"
    /\ last.value[1].script # None
    /\ last.value[1].script[1] =
           Script("CHANNEL_CLOSE_WITH_PROOF_TEMPLATE",
                  <<"B", MaxVersion + 1, 0, MaxBal, <<7>>, NoSig>>)
    /\ channels["B"].self_status.tag = "Closed"

----------------------------------------------------------------------------
\* the placeholder of a registered module that starts the string, if any
RegisteredAt(str, module_registry) ==
    {i \in DOMAIN module_registry :
        LET from == Placeholder(module_registry[i].name) IN
        Len(str) >= Len(from) /\ SubSeq(str, 1, Len(from)) = from}

\* the template with the placeholders of all registered modules replaced at once
RECURSIVE Substituted(_, _)
Substituted(str, module_registry) ==
    IF str = <<>> THEN <<>>
    ELSE LET at == RegisteredAt(str, module_registry) IN
         IF at = {}
         THEN <<Head(str)>> \o Substituted(Tail(str), module_registry)
         ELSE LET module == module_registry[CHOOSE i \in at : TRUE]
                  from == Placeholder(module.name) IN
              <<"0", "x">> \o to_string(module.account)
                  \o Substituted(SubSeq(str, Len(from) + 1, Len(str)), module_registry)

\* C39: for any template and any module registry, parse_script returns the
\* template with every occurrence of each registered module's ${name} placeholder
\* replaced by 0x followed by that module's address, for all registered modules at
\* once; with an empty registry it returns the template unchanged.
C39_PlaceholderSubstitution ==
    last.op = "parse_script" =>
        LET v == last.value[1] IN
        /\ v.script = Substituted(v.script_template, v.module_registry)
        /\ v.module_registry = <<>> => v.script = v.script_template

====
